---------------------------- MODULE Spec2Model ----------------------------
(***************************************************************************)
(* Request-matching and lifecycle engine of the shift-marketplace bot.     *)
(*                                                                         *)
(*   main.py     on_callback_pick          (claim)                         *)
(*               cleanup_expired_requests  (expiry sweep)                  *)
(*               handle_post_publication   (submit)                        *)
(*               get_request_lock          (lock registry)                 *)
(*   storage.py  the Requests sheet: _append_request_sync,                 *)
(*               _find_request_sync, _update_request_status_sync           *)
(*                                                                         *)
(* main.py calls storage.gs_update_request_fields and                      *)
(* storage.gs_list_requests, which storage.py does not define.  They are   *)
(* modelled from the store contract of the specification (update of named  *)
(* fields, listing of the requests with their end timestamp).  Everything  *)
(* else follows the source: in particular a row that is read back with     *)
(* _find_request_sync carries only the columns of REQUESTS_HEADERS.        *)
(*                                                                         *)
(* All tasks run on one asyncio event loop: the code between two awaits is *)
(* one atomic step, and every await of a store or chat call is a point     *)
(* where another task may run.                                             *)
(***************************************************************************)
EXTENDS Integers, Sequences, FiniteSets, TLC

(* ----------------------------- bounds --------------------------------- *)
\* requests submitted in a run
MaxRequests == 1
\* chat users
NumUsers == 3
\* the clock runs over 0..MaxTime (minutes)
MaxTime == 2
\* claim callbacks and sweeper ticks handled in a run
MaxEvents == 2
\* claim callbacks handled in a run of SpecClaims
MaxClaimsFill == 5
\* the last day, counted from the day the clock starts, of SpecDraft
MaxDays == 1
\* edits of the Shops sheet in a run
MaxEdits == 1
\* calls of _load_reference_cache in a run
MaxLoads == 2
\* rows appended in a run of SpecAppend
MaxAppends == 3
\* /refresh_shops commands in a run of SpecRefresh
MaxForced == 2
\* the largest queue position of a call of build_generation_queue_message
MaxPosition == 9
\* the rows of a fetched Shops sheet
MaxSheetRows == 2
\* the largest filled_slots and max_slots of a record that is re-read
MaxSlotsRead == 7
\* the latest second, counted from the start of the process, of a load
MaxLoadedAt == 9
\* the seconds past CACHE_TTL_SECONDS up to which an age is looked at
MaxOver == 2

(* ------------------------ program constants --------------------------- *)
MAX_REQUEST_SLOTS_DEFAULT == 5
\* timedelta(minutes=1)
GraceMinutes == 1
\* storage.py, in seconds
CACHE_TTL_SECONDS == 900

Users == 1..NumUsers
\* the users who submit requests
Authors == {1}
\* the shift end a draft carries: only the time between the end and the
\* clock matters, and a draft may be submitted at every minute of the clock
EndTimes == {0}
\* SpecFaults submits one request more than Spec
Ids == 1..(MaxRequests + 1)
Kinds == {"director", "worker"}
\* record.get("end_dt_iso") of a record without it
NoEnd == -1
\* an empty channel_message_id
NoMessage == 0
\* the sweeper as a lock holder; a claim holds as the id of its user
Sweeper == NumUsers + 1
\* the one claimant of SpecFaults
FaultClaimant == NumUsers

VARIABLES
    now,            \* now_in_timezone(), in minutes
    rows,           \* the Requests sheet, one record per row, in sheet order
    posting,        \* ids whose public posting is in the channel
    published,      \* ids whose posting was ever sent (a claim button exists)
    REQUEST_LOCKS,  \* the registry: request id -> lock object (0: no entry)
    lockCount,      \* lock objects created so far
    held,           \* set of <<lock object, holder>>
    claim,          \* per user: the on_callback_pick task of that user
    handled,        \* callbacks and sweeper ticks handled so far
    sweep,          \* the periodic_requests_cleanup task
    submit,         \* the handle_post_publication task
    outcome,        \* the last answer to a claim: the user, the request, the result
    accepted,       \* per request and user: claims of the user answered as accepted
    expiredWrites,  \* per request: store writes of status expired so far
    expiryNotices,  \* per request: expiry notices sent to the author so far
    retracts,       \* per request: deletions of the public posting so far
    notices,        \* claim notices delivered to authors and claimants so far
    draft,          \* the draft of a request in the conversation (FSM data)
    catalog,        \* the Shops sheet of the reference catalog
    cache,          \* the module-level reference caches of storage.py
    refresh,        \* the refresh_shops_cache task (timer or forced)
    reader,         \* a conversation that looks up the reference caches
    loads,          \* calls of _load_reference_cache that have returned
    forced,         \* the refresh_shops_cache task of cmd_refresh_shops
    appender,       \* per submitter: its _append_request_sync worker thread
    returned,       \* the ids gs_append_request has returned, in order
    message,        \* a call of build_generation_queue_message and its result
    updated,        \* a record re-read by on_callback_pick and what follows
    recheck,        \* a record listed and re-read by the sweeper and what follows
    lookup,         \* a lookup of the reference caches and whether it rebuilt them
    slotted,        \* a stored record and what get_request_slots makes of it
    attempt,        \* a record as a claim finds it, the claim and what it leaves
    built           \* a Shops sheet as fetched and the indices built from it

\* the state of the reference cache and its users
refVars == <<catalog, cache, refresh, reader, loads>>

\* the state of the single calls and of the concurrent appends and refreshes
auxVars == <<forced, appender, returned, message, updated, recheck,
             lookup, slotted, attempt, built>>

\* the state of the request engine and of the conversation
engineVars == <<now, rows, posting, published, REQUEST_LOCKS, lockCount, held,
                claim, handled, sweep, submit,
                outcome, accepted, expiredWrites, expiryNotices, retracts,
                notices, draft>>

vars == <<now, rows, posting, published, REQUEST_LOCKS, lockCount, held,
          claim, handled, sweep, submit,
          outcome, accepted, expiredWrites, expiryNotices, retracts,
          notices, draft, refVars, auxVars>>

(* ----------------------------- helpers -------------------------------- *)
Range(s) == {s[i] : i \in 1..Len(s)}

Max2(a, b) == IF a >= b THEN a ELSE b

Min2(a, b) == IF a <= b THEN a ELSE b

(* ------------------------- the Requests sheet ------------------------- *)
\* _requests_ws.find(str(request_id), in_column=id): the first matching row, 0 if none
FindRow(rs, id) ==
    IF \E i \in 1..Len(rs) : rs[i].id = id
    THEN CHOOSE i \in 1..Len(rs) : rs[i].id = id /\ \A j \in 1..(i - 1) : rs[j].id # id
    ELSE 0

\* _next_request_id: max id + 1
NextRequestId(rs) ==
    IF Len(rs) = 0 THEN 1
    ELSE (CHOOSE m \in Range([i \in 1..Len(rs) |-> rs[i].id]) :
            \A i \in 1..Len(rs) : rs[i].id <= m) + 1

\* _append_request_sync: the row holds the columns of REQUESTS_HEADERS only;
\* max_slots, picked_ids, invited_ids, filled_slots and end_dt_iso of the
\* payload are not written.  time_to stands for the date and time_to columns.
\* picked_ids, invited_ids and filled_slots are the named fields that
\* gs_update_request_fields may set later; they start empty.
AppendRequest(rs, payload) ==
    Append(rs, [id |-> NextRequestId(rs),
                kind |-> payload.kind,
                author_id |-> payload.author_id,
                status |-> payload.status,
                channel_message_id |-> NoMessage,
                time_to |-> payload.time_to,
                picked_ids |-> <<>>,
                invited_ids |-> <<>>,
                filled_slots |-> 0])

\* _find_request_sync: the columns of REQUESTS_HEADERS of the first row with
\* this id.  The keys end_dt_iso, max_slots, filled_slots, picked_ids and
\* invited_ids are not columns, so record.get(...) of them is None: they are
\* given here as the value the callers' "or" defaults turn None into.
FindRequest(rs, id) ==
    LET i == FindRow(rs, id) IN
    IF i = 0
    THEN [found |-> FALSE, id |-> id, kind |-> "director", author_id |-> 0,
          status |-> "", channel_message_id |-> NoMessage, end_dt_iso |-> NoEnd,
          max_slots |-> 0, filled_slots |-> 0, picked_ids |-> <<>>,
          invited_ids |-> <<>>]
    ELSE [found |-> TRUE, id |-> rs[i].id, kind |-> rs[i].kind,
          author_id |-> rs[i].author_id, status |-> rs[i].status,
          channel_message_id |-> rs[i].channel_message_id,
          end_dt_iso |-> NoEnd,
          max_slots |-> 0, filled_slots |-> 0, picked_ids |-> <<>>,
          invited_ids |-> <<>>]

\* _update_request_status_sync: writes status and channel_message_id of the row
UpdateRequestStatus(rs, id, status, channel_message_id) ==
    LET i == FindRow(rs, id) IN
    IF i = 0 THEN rs
    ELSE [rs EXCEPT ![i].status = status,
                    ![i].channel_message_id = channel_message_id]

\* storage.gs_update_request_fields (store contract): sets the named fields
UpdateRequestFields(rs, id, fields) ==
    LET i == FindRow(rs, id) IN
    IF i = 0 THEN rs
    ELSE [rs EXCEPT ![i] = [f \in DOMAIN rs[i] |->
                              IF f \in DOMAIN fields THEN fields[f] ELSE rs[i][f]]]

\* storage.gs_list_requests (store contract): every request with its id,
\* status and end timestamp
ListRequests(rs) ==
    [i \in 1..Len(rs) |-> [id |-> rs[i].id, status |-> rs[i].status,
                           end_dt_iso |-> rs[i].time_to]]

(* --------------------------- lock registry ---------------------------- *)
\* get_request_lock without the lookup: a new lock on every call
get_request_lock_fresh(locks, count, request_id) ==
    [lock |-> count + 1,
     locks |-> [locks EXCEPT ![request_id] = count + 1],
     count |-> count + 1]

\* get_request_lock: the registered lock of the id, created on first use.
\* REQUEST_LOCKS_MAP_LOCK is never contended: the block it guards has no await.
get_request_lock(locks, count, request_id) ==
    IF locks[request_id] = 0
    THEN [lock |-> count + 1,
          locks |-> [locks EXCEPT ![request_id] = count + 1],
          count |-> count + 1]
    ELSE [lock |-> locks[request_id], locks |-> locks, count |-> count]

LockFree(lock) == \A h \in held : h[1] # lock

(* ------------------------------ claim --------------------------------- *)
\* get_request_slots without the upper clamp of max_slots and of filled
get_request_slots_unclamped(record) ==
    LET m0 == IF record.max_slots = 0 THEN MAX_REQUEST_SLOTS_DEFAULT
              ELSE record.max_slots
        max_slots == IF m0 <= 0 THEN MAX_REQUEST_SLOTS_DEFAULT ELSE m0
    IN [filled |-> Max2(0, record.filled_slots), max_slots |-> max_slots]

\* get_request_slots: (filled, max_slots) of a record, clamped
get_request_slots(record) ==
    LET m0 == IF record.max_slots = 0 THEN MAX_REQUEST_SLOTS_DEFAULT
              ELSE record.max_slots
        m1 == IF m0 <= 0 THEN MAX_REQUEST_SLOTS_DEFAULT ELSE m0
        max_slots == IF m1 > MAX_REQUEST_SLOTS_DEFAULT
                     THEN MAX_REQUEST_SLOTS_DEFAULT ELSE m1
    IN [filled |-> Max2(0, Min2(record.filled_slots, max_slots)),
        max_slots |-> max_slots]

IdsKey(record) == IF record.kind = "director" THEN "picked_ids" ELSE "invited_ids"

\* the message that carries the claim button of a request (call.message.message_id)
MessageIdOf(request_id) == request_id

NoUpdates == [status |-> ""]

\* the accepted branch of on_callback_pick with the claimant appended twice
ValidateClaim_double_append(record, picker, now_local) ==
    LET slots == get_request_slots(record)
        current_ids == record[IdsKey(record)]
        new_ids == Append(Append(current_ids, picker), picker)
    IN IF ~record.found
       THEN [outcome |-> "NotFound", write |-> FALSE, updates |-> NoUpdates]
       ELSE IF record.status \in {"expired", "cancelled"}
       THEN [outcome |-> "AlreadyTerminal", write |-> FALSE, updates |-> NoUpdates]
       ELSE IF record.author_id = picker
       THEN [outcome |-> "SelfClaim", write |-> FALSE, updates |-> NoUpdates]
       ELSE IF picker \in Range(current_ids)
       THEN [outcome |-> "DuplicateClaim", write |-> FALSE, updates |-> NoUpdates]
       ELSE IF slots.filled >= slots.max_slots
       THEN [outcome |-> "Full", write |-> FALSE, updates |-> NoUpdates]
       ELSE [outcome |-> "Accepted", write |-> TRUE,
             updates |-> (IdsKey(record) :> new_ids) @@
                         [filled_slots |-> Len(new_ids), status |-> "open",
                          channel_message_id |-> MessageIdOf(record.id)]]

\* on_callback_pick without the check of the author
ValidateClaim_no_self_check(record, picker, now_local) ==
    LET slots == get_request_slots(record)
        current_ids == record[IdsKey(record)]
        new_ids == Append(current_ids, picker)
    IN IF ~record.found
       THEN [outcome |-> "NotFound", write |-> FALSE, updates |-> NoUpdates]
       ELSE IF record.status \in {"expired", "cancelled"}
       THEN [outcome |-> "AlreadyTerminal", write |-> FALSE, updates |-> NoUpdates]
       ELSE IF picker \in Range(current_ids)
       THEN [outcome |-> "DuplicateClaim", write |-> FALSE, updates |-> NoUpdates]
       ELSE IF slots.filled >= slots.max_slots
       THEN [outcome |-> "Full", write |-> FALSE, updates |-> NoUpdates]
       ELSE [outcome |-> "Accepted", write |-> TRUE,
             updates |-> (IdsKey(record) :> new_ids) @@
                         [filled_slots |-> Len(new_ids), status |-> "open",
                          channel_message_id |-> MessageIdOf(record.id)]]

\* on_callback_pick with new_status "filled" from the first claimant on
ValidateClaim_filled_early(record, picker, now_local) ==
    LET current_ids == record[IdsKey(record)]
        new_ids == Append(current_ids, picker)
    IN IF ~record.found
       THEN [outcome |-> "NotFound", write |-> FALSE, updates |-> NoUpdates]
       ELSE IF record.status \in {"expired", "cancelled"}
       THEN [outcome |-> "AlreadyTerminal", write |-> FALSE, updates |-> NoUpdates]
       ELSE IF record.author_id = picker
       THEN [outcome |-> "SelfClaim", write |-> FALSE, updates |-> NoUpdates]
       ELSE [outcome |-> "Accepted", write |-> TRUE,
             updates |-> (IdsKey(record) :> new_ids) @@
                         [filled_slots |-> Len(new_ids), status |-> "filled",
                          channel_message_id |-> MessageIdOf(record.id)]]

\* on_callback_pick with filled_slots written as the count read, not the
\* length of the new list
ValidateClaim_stale_count(record, picker, now_local) ==
    LET slots == get_request_slots(record)
        current_ids == record[IdsKey(record)]
        new_ids == Append(current_ids, picker)
    IN IF ~record.found
       THEN [outcome |-> "NotFound", write |-> FALSE, updates |-> NoUpdates]
       ELSE IF record.status \in {"expired", "cancelled"}
       THEN [outcome |-> "AlreadyTerminal", write |-> FALSE, updates |-> NoUpdates]
       ELSE IF record.author_id = picker
       THEN [outcome |-> "SelfClaim", write |-> FALSE, updates |-> NoUpdates]
       ELSE [outcome |-> "Accepted", write |-> TRUE,
             updates |-> (IdsKey(record) :> new_ids) @@
                         [filled_slots |-> slots.filled, status |-> "open",
                          channel_message_id |-> MessageIdOf(record.id)]]

\* on_callback_pick with the author accepted like any other claimant
ValidateClaim_author_accepted(record, picker, now_local) ==
    LET current_ids == record[IdsKey(record)]
        new_ids == Append(current_ids, picker)
    IN IF ~record.found
       THEN [outcome |-> "NotFound", write |-> FALSE, updates |-> NoUpdates]
       ELSE IF record.status \in {"expired", "cancelled"}
       THEN [outcome |-> "AlreadyTerminal", write |-> FALSE, updates |-> NoUpdates]
       ELSE [outcome |-> "Accepted", write |-> TRUE,
             updates |-> (IdsKey(record) :> new_ids) @@
                         [filled_slots |-> Len(new_ids), status |-> "open",
                          channel_message_id |-> MessageIdOf(record.id)]]

\* on_callback_pick with a store write of status filled where it answers Full
ValidateClaim_full_writes(record, picker, now_local) ==
    LET slots == get_request_slots(record)
        current_ids == record[IdsKey(record)]
        new_ids == Append(current_ids, picker)
    IN IF ~record.found
       THEN [outcome |-> "NotFound", write |-> FALSE, updates |-> NoUpdates]
       ELSE IF record.status \in {"expired", "cancelled"}
       THEN [outcome |-> "AlreadyTerminal", write |-> FALSE, updates |-> NoUpdates]
       ELSE IF record.author_id = picker
       THEN [outcome |-> "SelfClaim", write |-> FALSE, updates |-> NoUpdates]
       ELSE IF record.end_dt_iso # NoEnd /\ now_local > record.end_dt_iso + GraceMinutes
       THEN [outcome |-> "Expired", write |-> TRUE, updates |-> [status |-> "expired"]]
       ELSE IF picker \in Range(current_ids)
       THEN [outcome |-> "DuplicateClaim", write |-> FALSE, updates |-> NoUpdates]
       ELSE IF slots.filled >= slots.max_slots
       THEN [outcome |-> "Full", write |-> TRUE, updates |-> [status |-> "filled"]]
       ELSE [outcome |-> "Accepted", write |-> TRUE,
             updates |-> (IdsKey(record) :> new_ids) @@
                         [filled_slots |-> Len(new_ids), status |-> "open",
                          channel_message_id |-> MessageIdOf(record.id)]]

\* on_callback_pick, from the record read under the lock to the first store
\* write or the answer: the outcome, and the fields to write if any.
\* The statuses the engine writes are lower-case without blanks, so
\* str(...).strip().lower() leaves them as they are.
ValidateClaim(record, picker, now_local) ==
    IF ~record.found
    THEN [outcome |-> "NotFound", write |-> FALSE, updates |-> NoUpdates]
    ELSE IF record.status \in {"expired", "cancelled"}
    THEN [outcome |-> "AlreadyTerminal", write |-> FALSE, updates |-> NoUpdates]
    ELSE IF record.author_id = picker
    THEN [outcome |-> "SelfClaim", write |-> FALSE, updates |-> NoUpdates]
    ELSE IF record.end_dt_iso # NoEnd /\ now_local > record.end_dt_iso + GraceMinutes
    THEN [outcome |-> "Expired", write |-> TRUE, updates |-> [status |-> "expired"]]
    ELSE
      LET slots == get_request_slots(record)
          current_ids == record[IdsKey(record)]
          new_ids == Append(current_ids, picker)
          new_filled == Len(new_ids)
      IN IF picker \in Range(current_ids)
         THEN [outcome |-> "DuplicateClaim", write |-> FALSE, updates |-> NoUpdates]
         ELSE IF slots.filled >= slots.max_slots
         THEN [outcome |-> "Full", write |-> FALSE, updates |-> NoUpdates]
         ELSE [outcome |-> "Accepted", write |-> TRUE,
               updates |-> (IdsKey(record) :> new_ids) @@
                           [filled_slots |-> new_filled,
                            status |-> IF new_filled >= slots.max_slots
                                       THEN "filled" ELSE "open",
                            channel_message_id |-> MessageIdOf(record.id)]]

\* nothing answered yet
NoOutcome == [user |-> 0, rid |-> 0, result |-> ""]

IdleClaim == [pc |-> "idle", rid |-> 0, lock |-> 0, updates |-> NoUpdates,
              outcome |-> ""]

IdleSweep == [pc |-> "sleep", records |-> <<>>, i |-> 0, now_local |-> 0,
              lock |-> 0, message_id |-> NoMessage]

IdleSubmit == [pc |-> "idle", rid |-> 0]

\* no draft in the conversation
NoDraft == [pc |-> "none", date |-> 0, time_from |-> 0, time_to |-> 0,
            at |-> 0, error |-> ""]

(* ------------------------- the reference cache ------------------------ *)
\* the ids of the rows of the Shops sheet
ShopIds == {1, 2}

\* the metro stations the Shops sheet names
Stations == {"A", "B"}

DEFAULT_AREA_ID == "CENTER"

\* the MetroAreas sheet: station -> area_id
AreaSheet == [st \in Stations |-> IF st = "A" THEN "NORTH" ELSE "SOUTH"]

\* the dist_N_m cell of a shop for a station
DistanceOf(shop_id, station) == 100 * shop_id

ShopLocation(shop_id, station) ==
    [shop_id |-> shop_id, shop_name |-> shop_id,
     distance_m |-> DistanceOf(shop_id, station)]

\* _load_reference_cache after both fetches: every index is built from the
\* fetched rows and all are assigned together under _SHOPS_LOCK.  A failed
\* fetch of the MetroAreas sheet gives an empty mapping, with which
\* _resolve_station_area puts every station into the default area.
\* A tuple of locations or summaries is given as the set of its elements.
BuildCache(values, areas_ok) ==
    LET area_of(st) == IF areas_ok THEN AreaSheet[st] ELSE DEFAULT_AREA_ID
        locations(st) ==
            {ShopLocation(id, st) :
                id \in {i \in ShopIds : st \in values[i].metros /\ values[i].is_active}}
        stations == {st \in Stations : locations(st) # {}}
        summary(st) == [name |-> st, area_id |-> area_of(st),
                        shop_count |-> Cardinality(locations(st))]
        areas == {area_of(st) : st \in stations}
        of_area(a) == {st \in stations : area_of(st) = a}
    IN [SHOPS_CACHE |-> values,
        METRO_CACHE |-> [st \in stations |-> locations(st)],
        STATION_SUMMARY_BY_NAME |-> [st \in stations |-> summary(st)],
        AREA_SUMMARY_CACHE |->
            [a \in areas |->
                [area_id |-> a,
                 shop_count |->
                     Cardinality({loc.shop_id :
                                    loc \in UNION {locations(st) : st \in of_area(a)}}),
                 stations |-> {summary(st) : st \in of_area(a)}]],
        SHOPS_CACHE_UPDATED_AT |-> "fresh"]

\* _load_reference_cache that adds the rebuilt stations to the old indices
LoadReferenceCache_keep_old(old, values, areas_ok, shops_ok) ==
    LET new == BuildCache(values, areas_ok)
        merged(f, g) == [x \in DOMAIN f \cup DOMAIN g |->
                            IF x \in DOMAIN g THEN g[x] ELSE f[x]]
    IN IF ~shops_ok THEN old
       ELSE [new EXCEPT
               !.METRO_CACHE = merged(old.METRO_CACHE, new.METRO_CACHE),
               !.STATION_SUMMARY_BY_NAME =
                   merged(old.STATION_SUMMARY_BY_NAME, new.STATION_SUMMARY_BY_NAME)]

\* _load_reference_cache: a failed fetch of the Shops sheet is logged and
\* returns with the caches as they are
LoadReferenceCache(old, values, areas_ok, shops_ok) ==
    IF ~shops_ok THEN old ELSE BuildCache(values, areas_ok)

\* the module-level caches before the first load
NoCache == [SHOPS_CACHE |-> <<>>, METRO_CACHE |-> <<>>,
            STATION_SUMMARY_BY_NAME |-> <<>>, AREA_SUMMARY_CACHE |-> <<>>,
            SHOPS_CACHE_UPDATED_AT |-> "none"]

\* the Shops sheet at the start: every shop active, shop 1 near every
\* station, the others near station "B" only
FirstCatalog ==
    [id \in ShopIds |-> [is_active |-> TRUE,
                          metros |-> IF id = 1 THEN Stations ELSE {"B"}]]

IdleRefresh == [pc |-> "idle", values |-> <<>>, areas_ok |-> TRUE]

IdleReader == [pc |-> "start", stations |-> {}, station |-> "", locations |-> {},
               shops |-> {}]

InitRef ==
    /\ catalog = [rows |-> FirstCatalog, edits |-> 0]
    /\ cache = NoCache
    /\ refresh = IdleRefresh
    /\ reader = IdleReader
    /\ loads = [n |-> 0, failed |-> FALSE]

(* ------------------- concurrent appends, single calls ------------------ *)
\* the users who submit at the same time, each in its own handler
Appenders == {1, 2}

IdleAppender == [pc |-> "idle", request_id |-> 0]

\* no call of build_generation_queue_message yet
NoQueueMessage == [pc |-> "none", queue_position |-> 0, asset_kind |-> <<>>,
                   text |-> <<>>]

\* no record re-read yet
NoUpdated == [pc |-> "none", found |-> FALSE, filled_slots |-> 0, max_slots |-> 0,
              outcome |-> "", notified |-> FALSE]

\* no record under the sweeper's checks yet
NoRecheck == [pc |-> "none",
              listed |-> [id |-> 0, status |-> "", end_dt_iso |-> NoEnd],
              latest |-> [found |-> FALSE, status |-> "", end_dt_iso |-> NoEnd],
              now_local |-> 0, writes |-> FALSE]

\* SHOPS_CACHE_UPDATED_AT before the first load (None)
NoLoad == -1

\* no lookup yet
NoLookup == [pc |-> "none", updated_at |-> NoLoad, now |-> 0, rebuilt |-> FALSE]

\* a value of a record: None, an int or a str (the sequence of its code points)
PyNone == [type |-> "NoneType", int |-> 0, text |-> <<>>]

\* no record measured yet
NoSlotted == [pc |-> "none", max_slots |-> PyNone, filled_slots |-> PyNone,
              filled |-> 0, capacity |-> 0]

\* a request as the store contract holds it, before any is looked at
NoRequest == [id |-> 0, kind |-> "director", author_id |-> 0, status |-> "",
              channel_message_id |-> NoMessage, end_dt_iso |-> NoEnd, max_slots |-> 0,
              filled_slots |-> 0, picked_ids |-> <<>>, invited_ids |-> <<>>]

\* no claim attempted yet
NoAttempt == [pc |-> "none", found |-> FALSE, request |-> NoRequest, picker |-> 0,
              now_local |-> 0, outcome |-> "", wrote |-> FALSE, after |-> NoRequest]

\* no indices built yet
NoIndices == [SHOPS_CACHE |-> <<>>, METRO_CACHE |-> <<>>,
              STATION_SUMMARY_BY_NAME |-> <<>>, AREA_SUMMARY_CACHE |-> <<>>]

\* no Shops sheet fetched yet
NoBuilt == [pc |-> "none", values |-> <<>>, areas_ok |-> TRUE, indices |-> NoIndices]

\* no /refresh_shops command yet
IdleForced == [pc |-> "idle", values |-> <<>>, areas_ok |-> TRUE, n |-> 0]

InitAux ==
    /\ forced = IdleForced
    /\ appender = [a \in Appenders |-> IdleAppender]
    /\ returned = <<>>

\* the engine before the first request
InitEngine ==
    /\ now = 0
    /\ rows = <<>>
    /\ posting = {}
    /\ published = {}
    /\ REQUEST_LOCKS = [id \in Ids |-> 0]
    /\ lockCount = 0
    /\ held = {}
    /\ claim = [u \in Users |-> IdleClaim]
    /\ handled = 0
    /\ sweep = IdleSweep
    /\ submit = IdleSubmit
    /\ outcome = NoOutcome
    /\ accepted = [id \in Ids |-> [u \in Users |-> 0]]
    /\ expiredWrites = [id \in Ids |-> 0]
    /\ expiryNotices = [id \in Ids |-> 0]
    /\ retracts = [id \in Ids |-> 0]
    /\ notices = 0
    /\ draft = NoDraft
    /\ InitRef

Init ==
    /\ InitEngine
    /\ InitAux
    /\ message = NoQueueMessage
    /\ updated = NoUpdated
    /\ recheck = NoRecheck
    /\ lookup = NoLookup
    /\ slotted = NoSlotted
    /\ attempt = NoAttempt
    /\ built = NoBuilt

\* time passes
Tick ==
    /\ now < MaxTime
    /\ now' = now + 1
    /\ UNCHANGED <<notices, draft, refVars, auxVars>>
    /\ UNCHANGED <<rows, posting, published, REQUEST_LOCKS, lockCount, held,
                   claim, handled, sweep, submit,
                   outcome, accepted, expiredWrites, expiryNotices, retracts>>

\* on_callback_pick up to "async with lock": the callback of user u on the
\* button of request id; the lock object is taken from the registry, and a
\* free lock is acquired without suspending
ClaimStartUpTo(u, id, cap) ==
    /\ claim[u].pc = "idle"
    /\ handled < cap
    /\ id \in published
    /\ LET got == get_request_lock(REQUEST_LOCKS, lockCount, id) IN
         /\ REQUEST_LOCKS' = got.locks
         /\ lockCount' = got.count
         /\ IF LockFree(got.lock)
            THEN /\ held' = held \cup {<<got.lock, u>>}
                 /\ claim' = [claim EXCEPT ![u] = [IdleClaim EXCEPT !.pc = "locked",
                                                     !.rid = id, !.lock = got.lock]]
            ELSE /\ held' = held
                 /\ claim' = [claim EXCEPT ![u] = [IdleClaim EXCEPT !.pc = "wait",
                                                     !.rid = id, !.lock = got.lock]]
    /\ handled' = handled + 1
    /\ UNCHANGED <<notices, draft, refVars, auxVars>>
    /\ UNCHANGED <<now, rows, posting, published, sweep,
                   submit, outcome, accepted, expiredWrites, expiryNotices, retracts>>

ClaimStart(u, id) == ClaimStartUpTo(u, id, MaxEvents)

\* "async with lock" of on_callback_pick after waiting for the holder
ClaimAcquire(u) ==
    /\ claim[u].pc = "wait"
    /\ LockFree(claim[u].lock)
    /\ held' = held \cup {<<claim[u].lock, u>>}
    /\ claim' = [claim EXCEPT ![u].pc = "locked"]
    /\ UNCHANGED <<notices, draft, refVars, auxVars>>
    /\ UNCHANGED <<now, rows, posting, published, REQUEST_LOCKS, lockCount,
                   handled, sweep, submit,
                   outcome, accepted, expiredWrites, expiryNotices, retracts>>

\* gs_find_request and the checks that follow it; a failed check answers
\* the caller and leaves the lock
ClaimFind(u) ==
    /\ claim[u].pc = "locked"
    /\ LET v == ValidateClaim(FindRequest(rows, claim[u].rid), u, now) IN
         IF v.write
         THEN /\ claim' = [claim EXCEPT ![u].pc = "write",
                                        ![u].updates = v.updates,
                                        ![u].outcome = v.outcome]
              /\ UNCHANGED <<held, outcome>>
         ELSE /\ claim' = [claim EXCEPT ![u] = IdleClaim]
              /\ held' = held \ {<<claim[u].lock, u>>}
              /\ outcome' = [user |-> u, rid |-> claim[u].rid, result |-> v.outcome]
    /\ UNCHANGED <<notices, draft, refVars, auxVars>>
    /\ UNCHANGED <<now, rows, posting, published, REQUEST_LOCKS, lockCount,
                   handled, sweep, submit,
                   accepted, expiredWrites, expiryNotices, retracts>>

\* gs_update_request_fields of on_callback_pick: the lazy expiry (then the
\* caller is answered) or the accepted claim (then the record is re-read)
ClaimWrite(u) ==
    /\ claim[u].pc = "write"
    /\ rows' = UpdateRequestFields(rows, claim[u].rid, claim[u].updates)
    /\ IF claim[u].outcome = "Expired"
       THEN /\ claim' = [claim EXCEPT ![u] = IdleClaim]
            /\ held' = held \ {<<claim[u].lock, u>>}
            /\ outcome' = [user |-> u, rid |-> claim[u].rid, result |-> "Expired"]
            /\ expiredWrites' = [expiredWrites EXCEPT ![claim[u].rid] = @ + 1]
       ELSE /\ claim' = [claim EXCEPT ![u].pc = "finish"]
            /\ UNCHANGED <<held, outcome, expiredWrites>>
    /\ UNCHANGED <<notices, draft, refVars, auxVars>>
    /\ UNCHANGED <<now, posting, published, REQUEST_LOCKS, lockCount,
                   handled, sweep, submit,
                   accepted, expiryNotices, retracts>>

\* the end of on_callback_pick with an undelivered notice reported to the
\* caller as a failure
ClaimFinishWith_failure_reported(u, delivered) ==
    /\ claim[u].pc = "finish"
    /\ outcome' = [user |-> u, rid |-> claim[u].rid,
                   result |-> IF delivered = 2 THEN "Accepted" ELSE "Error"]
    /\ accepted' = IF delivered = 2
                   THEN [accepted EXCEPT ![claim[u].rid][u] = @ + 1] ELSE accepted
    /\ notices' = notices + delivered
    /\ claim' = [claim EXCEPT ![u] = IdleClaim]
    /\ held' = held \ {<<claim[u].lock, u>>}
    /\ UNCHANGED <<draft, refVars, auxVars>>
    /\ UNCHANGED <<now, rows, posting, published, REQUEST_LOCKS, lockCount,
                   handled, sweep, submit,
                   expiredWrites, expiryNotices, retracts>>

\* the re-read after the write, the notices to author and claimant, the
\* edit of the posting and the answer; then the lock is left.  delivered is
\* the number of the two bot.send_message calls that did not raise: a
\* failure is caught and reported with send_tech, which catches its own.
ClaimFinishWith(u, delivered) ==
    /\ claim[u].pc = "finish"
    /\ LET updated_record == FindRequest(rows, claim[u].rid)
           slots == get_request_slots(updated_record)
       IN IF ~updated_record.found
          THEN /\ outcome' = [user |-> u, rid |-> claim[u].rid, result |-> "NotFound"]
               /\ UNCHANGED <<accepted, notices>>
          ELSE IF slots.filled > slots.max_slots
          THEN /\ outcome' = [user |-> u, rid |-> claim[u].rid, result |-> "Full"]
               /\ UNCHANGED <<accepted, notices>>
          ELSE /\ outcome' = [user |-> u, rid |-> claim[u].rid, result |-> "Accepted"]
               /\ accepted' = [accepted EXCEPT ![claim[u].rid][u] = @ + 1]
               /\ notices' = notices + delivered
    /\ claim' = [claim EXCEPT ![u] = IdleClaim]
    /\ held' = held \ {<<claim[u].lock, u>>}
    /\ UNCHANGED <<draft, refVars, auxVars>>
    /\ UNCHANGED <<now, rows, posting, published, REQUEST_LOCKS, lockCount,
                   handled, sweep, submit,
                   expiredWrites, expiryNotices, retracts>>

\* both notices are delivered
ClaimFinish(u) == ClaimFinishWith(u, 2)

\* bot.send_message to the author, to the claimant or to both raises
ClaimFinishUndelivered(u) == \E delivered \in {0, 1} : ClaimFinishWith(u, delivered)

(* --------------------------- expiry sweep ----------------------------- *)
SweepRid == sweep.records[sweep.i].id

\* cleanup_expired_requests, the checks on the listed record before the lock
\* is taken: TRUE if the record is skipped
SkipListed(record, now_local) ==
    \/ record.id = 0
    \/ record.status \in {"expired", "cancelled"}
    \/ record.end_dt_iso = NoEnd
    \/ now_local <= record.end_dt_iso + GraceMinutes

\* the checks on the record re-read under the lock without those of its
\* status and its end: only a missing record is skipped
SkipLatest_found_only(latest, listed_end, now_local) == ~latest.found

\* cleanup_expired_requests, the checks on the record re-read under the
\* lock: TRUE if the record is skipped.  listed_end is the end of the listed
\* record, used when the re-read record carries none.
SkipLatest(latest, listed_end, now_local) ==
    \/ ~latest.found
    \/ latest.status \in {"expired", "cancelled"}
    \/ LET latest_end == IF latest.end_dt_iso # NoEnd THEN latest.end_dt_iso
                         ELSE listed_end
       IN now_local <= latest_end + GraceMinutes

\* the sweep after the record at i: the next record, or back to
\* asyncio.sleep when the loop is over
AfterRecord(sw) ==
    IF sw.i + 1 > Len(sw.records) THEN IdleSweep
    ELSE [sw EXCEPT !.pc = "scan", !.i = @ + 1, !.lock = 0, !.message_id = NoMessage]

\* periodic_requests_cleanup wakes up: gs_list_requests and now_in_timezone()
SweepList ==
    /\ sweep.pc = "sleep"
    /\ handled < MaxEvents
    /\ handled' = handled + 1
    /\ sweep' = IF Len(rows) = 0 THEN IdleSweep
                ELSE [IdleSweep EXCEPT !.pc = "scan", !.records = ListRequests(rows),
                                       !.i = 1, !.now_local = now]
    /\ UNCHANGED <<notices, draft, refVars, auxVars>>
    /\ UNCHANGED <<now, rows, posting, published, REQUEST_LOCKS, lockCount, held,
                   claim, submit,
                   outcome, accepted, expiredWrites, expiryNotices, retracts>>

\* one listed record: skipped, or its lock is taken from the registry, and
\* a free lock is acquired without suspending
SweepExamine ==
    /\ sweep.pc = "scan"
    /\ IF SkipListed(sweep.records[sweep.i], sweep.now_local)
       THEN /\ sweep' = AfterRecord(sweep)
            /\ UNCHANGED <<REQUEST_LOCKS, lockCount, held>>
       ELSE LET got == get_request_lock(REQUEST_LOCKS, lockCount, SweepRid) IN
            /\ REQUEST_LOCKS' = got.locks
            /\ lockCount' = got.count
            /\ IF LockFree(got.lock)
               THEN /\ held' = held \cup {<<got.lock, Sweeper>>}
                    /\ sweep' = [sweep EXCEPT !.pc = "locked", !.lock = got.lock]
               ELSE /\ held' = held
                    /\ sweep' = [sweep EXCEPT !.pc = "wait", !.lock = got.lock]
    /\ UNCHANGED <<notices, draft, refVars, auxVars>>
    /\ UNCHANGED <<now, rows, posting, published,
                   claim, handled, submit,
                   outcome, accepted, expiredWrites, expiryNotices, retracts>>

\* "async with lock" of cleanup_expired_requests after waiting for the holder
SweepAcquire ==
    /\ sweep.pc = "wait"
    /\ LockFree(sweep.lock)
    /\ held' = held \cup {<<sweep.lock, Sweeper>>}
    /\ sweep' = [sweep EXCEPT !.pc = "locked"]
    /\ UNCHANGED <<notices, draft, refVars, auxVars>>
    /\ UNCHANGED <<now, rows, posting, published, REQUEST_LOCKS, lockCount,
                   claim, handled, submit,
                   outcome, accepted, expiredWrites, expiryNotices, retracts>>

\* gs_find_request under the lock and the checks on the fresh record
SweepFind ==
    /\ sweep.pc = "locked"
    /\ LET latest == FindRequest(rows, SweepRid) IN
         IF SkipLatest(latest, sweep.records[sweep.i].end_dt_iso, sweep.now_local)
         THEN /\ sweep' = AfterRecord(sweep)
              /\ held' = held \ {<<sweep.lock, Sweeper>>}
         ELSE /\ sweep' = [sweep EXCEPT
                             !.pc = IF latest.channel_message_id # NoMessage
                                    THEN "retract" ELSE "write",
                             !.message_id = latest.channel_message_id]
              /\ UNCHANGED held
    /\ UNCHANGED <<notices, draft, refVars, auxVars>>
    /\ UNCHANGED <<now, rows, posting, published, REQUEST_LOCKS, lockCount,
                   claim, handled, submit,
                   outcome, accepted, expiredWrites, expiryNotices, retracts>>

\* bot.delete_message of the public posting
SweepRetract ==
    /\ sweep.pc = "retract"
    /\ posting' = posting \ {SweepRid}
    /\ retracts' = [retracts EXCEPT ![SweepRid] = @ + 1]
    /\ sweep' = [sweep EXCEPT !.pc = "write"]
    /\ UNCHANGED <<notices, draft, refVars, auxVars>>
    /\ UNCHANGED <<now, rows, published, REQUEST_LOCKS, lockCount, held,
                   claim, handled, submit,
                   outcome, accepted, expiredWrites, expiryNotices>>

\* gs_update_request_fields(request_id, status expired, channel_message_id "")
SweepWrite ==
    /\ sweep.pc = "write"
    /\ rows' = UpdateRequestFields(rows, SweepRid,
                   [status |-> "expired", channel_message_id |-> NoMessage])
    /\ expiredWrites' = [expiredWrites EXCEPT ![SweepRid] = @ + 1]
    /\ sweep' = [sweep EXCEPT !.pc = "notify"]
    /\ UNCHANGED <<notices, draft, refVars, auxVars>>
    /\ UNCHANGED <<now, posting, published, REQUEST_LOCKS, lockCount, held,
                   claim, handled, submit,
                   outcome, accepted, expiryNotices, retracts>>

\* the notice to the author; the lock is left and the loop goes on
SweepNotify ==
    /\ sweep.pc = "notify"
    /\ expiryNotices' = [expiryNotices EXCEPT ![SweepRid] = @ + 1]
    /\ held' = held \ {<<sweep.lock, Sweeper>>}
    /\ sweep' = AfterRecord(sweep)
    /\ UNCHANGED <<notices, draft, refVars, auxVars>>
    /\ UNCHANGED <<now, rows, posting, published, REQUEST_LOCKS, lockCount,
                   claim, handled, submit,
                   outcome, accepted, expiredWrites, retracts>>

\* gs_find_request under the lock raises: nothing inside
\* cleanup_expired_requests catches it, "async with" leaves the lock, and
\* periodic_requests_cleanup logs the error and goes back to sleep
SweepFindFails ==
    /\ sweep.pc = "locked"
    /\ held' = held \ {<<sweep.lock, Sweeper>>}
    /\ sweep' = IdleSweep
    /\ UNCHANGED <<notices, draft, refVars, auxVars>>
    /\ UNCHANGED <<now, rows, posting, published, REQUEST_LOCKS, lockCount,
                   claim, handled, submit,
                   outcome, accepted, expiredWrites, expiryNotices, retracts>>

\* the failed update of the sweeper with a "continue" that keeps the lock
SweepWriteFails_keeps_lock ==
    /\ sweep.pc = "write"
    /\ sweep' = AfterRecord(sweep)
    /\ UNCHANGED <<notices, draft, refVars, auxVars>>
    /\ UNCHANGED <<now, rows, posting, published, REQUEST_LOCKS, lockCount, held,
                   claim, handled, submit,
                   outcome, accepted, expiredWrites, expiryNotices, retracts>>

\* gs_update_request_fields of the sweeper raises: logged, "continue"
SweepWriteFails ==
    /\ sweep.pc = "write"
    /\ held' = held \ {<<sweep.lock, Sweeper>>}
    /\ sweep' = AfterRecord(sweep)
    /\ UNCHANGED <<notices, draft, refVars, auxVars>>
    /\ UNCHANGED <<now, rows, posting, published, REQUEST_LOCKS, lockCount,
                   claim, handled, submit,
                   outcome, accepted, expiredWrites, expiryNotices, retracts>>

\* bot.send_message to the author raises: logged, the loop goes on
SweepNotifyFails ==
    /\ sweep.pc = "notify"
    /\ held' = held \ {<<sweep.lock, Sweeper>>}
    /\ sweep' = AfterRecord(sweep)
    /\ UNCHANGED <<notices, draft, refVars, auxVars>>
    /\ UNCHANGED <<now, rows, posting, published, REQUEST_LOCKS, lockCount,
                   claim, handled, submit,
                   outcome, accepted, expiredWrites, expiryNotices, retracts>>

(* ------------------------------ submit -------------------------------- *)
\* handle_post_publication up to gs_append_request: the payload of the
\* confirmed draft is appended with status open
SubmitAppendUpTo(author, kind, time_to, cap) ==
    /\ submit.pc = "idle"
    /\ Len(rows) < cap
    /\ rows' = AppendRequest(rows, [kind |-> kind, author_id |-> author,
                                    status |-> "open", time_to |-> time_to])
    /\ submit' = [pc |-> "publish", rid |-> NextRequestId(rows)]
    /\ UNCHANGED <<notices, draft, refVars, auxVars>>
    /\ UNCHANGED <<now, posting, published, REQUEST_LOCKS, lockCount, held,
                   claim, handled, sweep,
                   outcome, accepted, expiredWrites, expiryNotices, retracts>>

SubmitAppend(author, kind, time_to) ==
    SubmitAppendUpTo(author, kind, time_to, MaxRequests)

\* bot.send_message(CHANNEL_ID, text, reply_markup=markup)
SubmitPublish ==
    /\ submit.pc = "publish"
    /\ posting' = posting \cup {submit.rid}
    /\ published' = published \cup {submit.rid}
    /\ submit' = [submit EXCEPT !.pc = "save"]
    /\ UNCHANGED <<notices, draft, refVars, auxVars>>
    /\ UNCHANGED <<now, rows, REQUEST_LOCKS, lockCount, held,
                   claim, handled, sweep,
                   outcome, accepted, expiredWrites, expiryNotices, retracts>>

\* gs_update_request_status(request_id, "open", channel_message_id=...)
SubmitSave ==
    /\ submit.pc = "save"
    /\ rows' = UpdateRequestStatus(rows, submit.rid, "open", MessageIdOf(submit.rid))
    /\ submit' = IdleSubmit
    /\ UNCHANGED <<notices, draft, refVars, auxVars>>
    /\ UNCHANGED <<now, posting, published, REQUEST_LOCKS, lockCount, held,
                   claim, handled, sweep,
                   outcome, accepted, expiredWrites, expiryNotices, retracts>>

Next ==
    \/ Tick
    \/ \E u \in Users, id \in Ids : ClaimStart(u, id)
    \/ \E u \in Users : ClaimAcquire(u)
    \/ \E u \in Users : ClaimFind(u)
    \/ \E u \in Users : ClaimWrite(u)
    \/ \E u \in Users : ClaimFinish(u)
    \/ SweepList
    \/ SweepExamine
    \/ SweepAcquire
    \/ SweepFind
    \/ SweepRetract
    \/ SweepWrite
    \/ SweepNotify
    \/ \E author \in Authors, kind \in Kinds, time_to \in EndTimes :
           SubmitAppend(author, kind, time_to)
    \/ SubmitPublish
    \/ SubmitSave

Spec == Init /\ [][Next]_vars

(* ------------------------- the draft of a request --------------------- *)
\* a datetime is its number of minutes since 00:00 of day 0, a date its
\* number of days since day 0, a time of day its minutes since 00:00
MinutesPerDay == 24 * 60

HM(hour, minute) == hour * 60 + minute

\* the times a user enters: parse_time_range yields "HH:MM" texts
TimesOfDay == {HM(0, 0), HM(1, 0), HM(10, 7), HM(10, 22), HM(12, 0), HM(12, 15)}

Dates == 0..MaxDays

\* the time a conversation may rest between two messages
Waits == {HM(12, 0), MinutesPerDay}

\* validate_timeslot returns None
NoError == ""

\* validate_timeslot without the check of the 15-minute step
validate_timeslot_any_minute(date_obj, from_parts, to_parts, now_local) ==
    LET today == now_local \div MinutesPerDay
        now_time == now_local % MinutesPerDay
        delta == (date_obj * MinutesPerDay + to_parts)
                     - (date_obj * MinutesPerDay + from_parts)
    IN IF date_obj < today THEN "PastDate"
       ELSE IF from_parts >= to_parts THEN "Order"
       ELSE IF date_obj = today /\ from_parts < now_time THEN "PastStart"
       ELSE IF delta < HM(1, 0) THEN "TooShort"
       ELSE IF delta > HM(12, 0) THEN "TooLong"
       ELSE NoError

\* validate_timeslot on texts that parse: the error, named after its
\* message, of the first check that fails
validate_timeslot(date_obj, from_parts, to_parts, now_local) ==
    LET today == now_local \div MinutesPerDay
        now_time == now_local % MinutesPerDay
        delta == (date_obj * MinutesPerDay + to_parts)
                     - (date_obj * MinutesPerDay + from_parts)
    IN IF date_obj < today THEN "PastDate"
       ELSE IF from_parts >= to_parts THEN "Order"
       ELSE IF date_obj = today /\ from_parts < now_time THEN "PastStart"
       ELSE IF \E check_time \in {from_parts, to_parts} : (check_time % 60) % 15 # 0
       THEN "Step"
       ELSE IF delta < HM(1, 0) THEN "TooShort"
       ELSE IF delta > HM(12, 0) THEN "TooLong"
       ELSE NoError

\* the conversation rests
Wait(d) ==
    /\ now + d < (MaxDays + 1) * MinutesPerDay
    /\ now' = now + d
    /\ UNCHANGED <<rows, posting, published, REQUEST_LOCKS, lockCount, held,
                   claim, handled, sweep, submit,
                   outcome, accepted, expiredWrites, expiryNotices, retracts,
                   notices, draft, refVars, auxVars>>

\* director_time_range, worker_time_range: the entered range is validated
\* against the date of the draft and kept if there is no error
TimeRange(date, time_from, time_to) ==
    /\ draft.pc \in {"none", "rejected"}
    /\ LET error == validate_timeslot(date, time_from, time_to, now) IN
         draft' = [pc |-> IF error = NoError THEN "ready" ELSE "rejected",
                   date |-> date, time_from |-> time_from, time_to |-> time_to,
                   at |-> now, error |-> error]
    /\ UNCHANGED <<now, rows, posting, published, REQUEST_LOCKS, lockCount, held,
                   claim, handled, sweep, submit,
                   outcome, accepted, expiredWrites, expiryNotices, retracts,
                   notices, refVars, auxVars>>

\* the confirmation of the draft: handle_post_publication up to
\* gs_append_request, with end_dt of the date and time_to of the draft
DraftConfirm ==
    /\ draft.pc = "ready"
    /\ submit.pc = "idle"
    /\ rows = <<>>
    /\ rows' = AppendRequest(rows, [kind |-> "director", author_id |-> 1,
                                    status |-> "open",
                                    time_to |-> draft.date * MinutesPerDay
                                                    + draft.time_to])
    /\ submit' = [pc |-> "publish", rid |-> NextRequestId(rows)]
    /\ draft' = NoDraft
    /\ UNCHANGED <<now, posting, published, REQUEST_LOCKS, lockCount, held,
                   claim, handled, sweep,
                   outcome, accepted, expiredWrites, expiryNotices, retracts,
                   notices, refVars, auxVars>>

NextDraft ==
    \/ \E d \in Waits : Wait(d)
    \/ \E date \in Dates, time_from \in TimesOfDay, time_to \in TimesOfDay :
           TimeRange(date, time_from, time_to)
    \/ DraftConfirm
    \/ SubmitPublish
    \/ SubmitSave

SpecDraft == Init /\ [][NextDraft]_vars

(* --------------------- the reference cache at work -------------------- *)
AreaIds == {AreaSheet[st] : st \in Stations} \cup {DEFAULT_AREA_ID}

\* calls of _load_reference_cache that have started
LoadsStarted == loads.n + (IF refresh.pc = "install" THEN 1 ELSE 0)

\* somebody edits the Shops sheet: a shop is deactivated or loses stations
CatalogEdit(id, row) ==
    /\ catalog.edits < MaxEdits
    /\ row # catalog.rows[id]
    /\ row.metros \subseteq catalog.rows[id].metros
    /\ row.is_active => catalog.rows[id].is_active
    /\ catalog' = [rows |-> [catalog.rows EXCEPT ![id] = row],
                   edits |-> catalog.edits + 1]
    /\ UNCHANGED <<cache, refresh, reader, loads, engineVars, auxVars>>

\* the age of the caches passes CACHE_TTL_SECONDS
TTLPasses ==
    /\ cache.SHOPS_CACHE_UPDATED_AT = "fresh"
    /\ cache' = [cache EXCEPT !.SHOPS_CACHE_UPDATED_AT = "stale"]
    /\ UNCHANGED <<catalog, refresh, reader, loads, engineVars, auxVars>>

\* refresh_shops_cache in its worker thread, the two fetches of
\* _load_reference_cache: a failed fetch of the Shops sheet ends the call
RefreshFetch(areas_ok, shops_ok) ==
    /\ refresh.pc = "idle"
    /\ LoadsStarted < MaxLoads
    /\ IF shops_ok
       THEN /\ refresh' = [pc |-> "install", values |-> catalog.rows,
                           areas_ok |-> areas_ok]
            /\ UNCHANGED loads
       ELSE /\ refresh' = IdleRefresh
            /\ loads' = [loads EXCEPT !.n = @ + 1, !.failed = TRUE]
    /\ UNCHANGED <<catalog, cache, reader, engineVars, auxVars>>

\* the indices are built from the fetched rows and assigned under _SHOPS_LOCK
RefreshInstall ==
    /\ refresh.pc = "install"
    /\ cache' = LoadReferenceCache(cache, refresh.values, refresh.areas_ok, TRUE)
    /\ loads' = [n |-> loads.n + 1, failed |-> ~refresh.areas_ok]
    /\ refresh' = IdleRefresh
    /\ UNCHANGED <<catalog, reader, engineVars, auxVars>>

\* _ensure_cache_fresh at the start of a lookup: without a load, or with an
\* age above the TTL, the caches are rebuilt in the calling thread
EnsureCacheFresh(areas_ok, shops_ok) ==
    IF cache.SHOPS_CACHE_UPDATED_AT = "fresh"
    THEN /\ areas_ok /\ shops_ok
         /\ UNCHANGED <<cache, loads>>
    ELSE /\ LoadsStarted < MaxLoads
         /\ cache' = LoadReferenceCache(cache, catalog.rows, areas_ok, shops_ok)
         /\ loads' = [n |-> loads.n + 1, failed |-> ~(areas_ok /\ shops_ok)]

\* worker_area_pick: get_area_summary, whose stations go into the
\* conversation state (set_station_context)
ReaderArea(area_id, areas_ok, shops_ok) ==
    /\ reader.pc = "start"
    /\ EnsureCacheFresh(areas_ok, shops_ok)
    /\ reader' = IF area_id \in DOMAIN cache'.AREA_SUMMARY_CACHE
                 THEN [reader EXCEPT
                         !.pc = "stations",
                         !.stations = cache'.AREA_SUMMARY_CACHE[area_id].stations]
                 ELSE reader
    /\ UNCHANGED <<catalog, refresh, engineVars, auxVars>>

\* worker_station_pick: get_station_shops of a station of the kept list
ReaderStation(summary, areas_ok, shops_ok) ==
    /\ reader.pc = "stations"
    /\ summary \in reader.stations
    /\ EnsureCacheFresh(areas_ok, shops_ok)
    /\ reader' = [reader EXCEPT
                    !.pc = "shops",
                    !.station = summary.name,
                    !.locations = IF summary.name \in DOMAIN cache'.METRO_CACHE
                                  THEN cache'.METRO_CACHE[summary.name] ELSE {}]
    /\ UNCHANGED <<catalog, refresh, engineVars, auxVars>>

\* fetch_shops of handle_post_publication: get_shops, the active shops
ReaderShops(areas_ok, shops_ok) ==
    /\ reader.pc = "shops"
    /\ EnsureCacheFresh(areas_ok, shops_ok)
    /\ reader' = [reader EXCEPT
                    !.pc = "done",
                    !.shops = {id \in DOMAIN cache'.SHOPS_CACHE :
                                  cache'.SHOPS_CACHE[id].is_active}]
    /\ UNCHANGED <<catalog, refresh, engineVars, auxVars>>

ShopRows == [is_active : BOOLEAN, metros : SUBSET Stations]

\* the StationSummary values a conversation may keep
Summaries == [name : Stations, area_id : AreaIds, shop_count : 1..Cardinality(ShopIds)]

NextCache ==
    \/ \E id \in ShopIds, row \in ShopRows : CatalogEdit(id, row)
    \/ TTLPasses
    \/ \E areas_ok \in BOOLEAN, shops_ok \in BOOLEAN : RefreshFetch(areas_ok, shops_ok)
    \/ RefreshInstall
    \/ \E area_id \in AreaIds, areas_ok \in BOOLEAN, shops_ok \in BOOLEAN :
           ReaderArea(area_id, areas_ok, shops_ok)
    \/ \E summary \in Summaries, areas_ok \in BOOLEAN, shops_ok \in BOOLEAN :
           ReaderStation(summary, areas_ok, shops_ok)
    \/ \E areas_ok \in BOOLEAN, shops_ok \in BOOLEAN : ReaderShops(areas_ok, shops_ok)

SpecCache == Init /\ [][NextCache]_vars

(* a run of submits and claims only, long enough to fill a request *)
NextClaims ==
    \/ \E u \in Users, id \in Ids : ClaimStartUpTo(u, id, MaxClaimsFill)
    \/ \E u \in Users : ClaimAcquire(u)
    \/ \E u \in Users : ClaimFind(u)
    \/ \E u \in Users : ClaimWrite(u)
    \/ \E u \in Users : ClaimFinish(u)
    \/ \E author \in Authors, kind \in Kinds, time_to \in EndTimes :
           SubmitAppend(author, kind, time_to)
    \/ SubmitPublish
    \/ SubmitSave

SpecClaims == Init /\ [][NextClaims]_vars

(* a run in which store and chat calls of the sweeper and the notices of a *)
(* claim may fail, over one request more than in Spec                      *)
NextFaults ==
    \/ Tick
    \/ \E id \in Ids : ClaimStart(FaultClaimant, id)
    \/ ClaimAcquire(FaultClaimant)
    \/ ClaimFind(FaultClaimant)
    \/ ClaimWrite(FaultClaimant)
    \/ ClaimFinish(FaultClaimant)
    \/ ClaimFinishUndelivered(FaultClaimant)
    \/ SweepList
    \/ SweepExamine
    \/ SweepAcquire
    \/ SweepFind
    \/ SweepFindFails
    \/ SweepRetract
    \/ SweepWrite
    \/ SweepWriteFails
    \/ SweepNotify
    \/ SweepNotifyFails
    \/ \E time_to \in EndTimes :
           SubmitAppendUpTo(1, "director", time_to, MaxRequests + 1)
    \/ SubmitPublish
    \/ SubmitSave

SpecFaults == Init /\ [][NextFaults]_vars

(* ------------- the sweeper as a timer that never stops ---------------- *)
\* periodic_requests_cleanup wakes up after its sleep, tick after tick
SweepListPeriodic ==
    /\ sweep.pc = "sleep"
    /\ sweep' = IF Len(rows) = 0 THEN IdleSweep
                ELSE [IdleSweep EXCEPT !.pc = "scan", !.records = ListRequests(rows),
                                       !.i = 1, !.now_local = now]
    /\ UNCHANGED <<notices, draft, refVars, auxVars>>
    /\ UNCHANGED <<now, rows, posting, published, REQUEST_LOCKS, lockCount, held,
                   claim, handled, submit,
                   outcome, accepted, expiredWrites, expiryNotices, retracts>>

\* bot.delete_message raises: logged, and the sweeper goes on to the update
SweepRetractFails ==
    /\ sweep.pc = "retract"
    /\ sweep' = [sweep EXCEPT !.pc = "write"]
    /\ UNCHANGED <<notices, draft, refVars, auxVars>>
    /\ UNCHANGED <<now, rows, posting, published, REQUEST_LOCKS, lockCount, held,
                   claim, handled, submit,
                   outcome, accepted, expiredWrites, expiryNotices, retracts>>

\* the steps of the tasks that are under way; the failure of a call, a new
\* submit and a new claim are left to the environment
Progress ==
    \/ Tick
    \/ ClaimAcquire(FaultClaimant)
    \/ ClaimFind(FaultClaimant)
    \/ ClaimWrite(FaultClaimant)
    \/ ClaimFinish(FaultClaimant)
    \/ SweepListPeriodic
    \/ SweepExamine
    \/ SweepAcquire
    \/ SweepFind
    \/ SweepRetract
    \/ SweepWrite
    \/ SweepNotify
    \/ SubmitPublish
    \/ SubmitSave

NextLive ==
    \/ Progress
    \/ \E id \in Ids : ClaimStart(FaultClaimant, id)
    \/ SweepRetractFails
    \/ \E time_to \in EndTimes : SubmitAppend(1, "director", time_to)

\* every task that can take a step takes one in the end, and the sweeper
\* wakes up again and again
SpecLive ==
    /\ Init
    /\ [][NextLive]_vars
    /\ WF_vars(Tick)
    /\ WF_vars(ClaimAcquire(FaultClaimant))
    /\ WF_vars(ClaimFind(FaultClaimant))
    /\ WF_vars(ClaimWrite(FaultClaimant))
    /\ WF_vars(ClaimFinish(FaultClaimant))
    /\ WF_vars(SweepListPeriodic)
    /\ WF_vars(SweepExamine)
    /\ WF_vars(SweepAcquire)
    /\ WF_vars(SweepFind)
    /\ WF_vars(SweepRetract)
    /\ WF_vars(SweepWrite)
    /\ WF_vars(SweepNotify)
    /\ WF_vars(SubmitPublish)
    /\ WF_vars(SubmitSave)

(* ------------------- refreshes that run at a time --------------------- *)
\* cmd_refresh_shops: refresh_shops_cache in a worker thread of its own, the
\* two fetches of _load_reference_cache; a failed fetch of the Shops sheet
\* ends the call, and the command answers
ForcedFetch(areas_ok, shops_ok) ==
    /\ forced.pc = "idle"
    /\ forced.n < MaxForced
    /\ forced' = IF shops_ok
                 THEN [pc |-> "install", values |-> catalog.rows,
                       areas_ok |-> areas_ok, n |-> forced.n + 1]
                 ELSE [IdleForced EXCEPT !.n = forced.n + 1]
    /\ UNCHANGED <<appender, returned, message, updated, recheck, lookup, slotted, attempt, built>>
    /\ UNCHANGED <<engineVars, refVars>>

\* the indices of the forced refresh are assigned under _SHOPS_LOCK
ForcedInstall ==
    /\ forced.pc = "install"
    /\ cache' = LoadReferenceCache(cache, forced.values, forced.areas_ok, TRUE)
    /\ forced' = [IdleForced EXCEPT !.n = forced.n]
    /\ UNCHANGED <<appender, returned, message, updated, recheck, lookup, slotted, attempt, built>>
    /\ UNCHANGED <<catalog, refresh, reader, loads, engineVars>>

\* the timer-driven refresh, the forced refresh and the rebuild of a stale
\* read, each in a thread of its own
NextRefresh ==
    \/ \E id \in ShopIds, row \in ShopRows : CatalogEdit(id, row)
    \/ TTLPasses
    \/ \E areas_ok \in BOOLEAN, shops_ok \in BOOLEAN : RefreshFetch(areas_ok, shops_ok)
    \/ RefreshInstall
    \/ \E areas_ok \in BOOLEAN, shops_ok \in BOOLEAN : ForcedFetch(areas_ok, shops_ok)
    \/ ForcedInstall
    \/ \E area_id \in AreaIds, areas_ok \in BOOLEAN, shops_ok \in BOOLEAN :
           ReaderArea(area_id, areas_ok, shops_ok)

SpecRefresh == Init /\ [][NextRefresh]_vars

(* ----------------------- two submits at a time ----------------------- *)
\* appends that have started
AppendsStarted ==
    Len(rows) + Cardinality({a \in Appenders : appender[a].pc = "append"})

\* the row _append_request_sync builds for the id it has computed
RequestRow(request_id, payload) ==
    [id |-> request_id,
     kind |-> payload.kind,
     author_id |-> payload.author_id,
     status |-> payload.status,
     channel_message_id |-> NoMessage,
     time_to |-> payload.time_to,
     picked_ids |-> <<>>,
     invited_ids |-> <<>>,
     filled_slots |-> 0]

\* _append_request_sync in the worker thread of submitter a, up to
\* _next_request_id: col_values of the id column is one call of the sheet
AppendRead(a) ==
    /\ appender[a].pc = "idle"
    /\ AppendsStarted < MaxAppends
    /\ appender' = [appender EXCEPT ![a] = [pc |-> "append",
                                             request_id |-> NextRequestId(rows)]]
    /\ UNCHANGED <<forced, returned, message, updated, recheck, lookup, slotted, attempt, built>>
    /\ UNCHANGED <<engineVars, refVars>>

\* append_row, a second call of the sheet, and the return of the id
AppendRow(a, kind) ==
    /\ appender[a].pc = "append"
    /\ rows' = Append(rows, RequestRow(appender[a].request_id,
                                        [kind |-> kind, author_id |-> a,
                                         status |-> "open", time_to |-> 0]))
    /\ returned' = Append(returned, appender[a].request_id)
    /\ appender' = [appender EXCEPT ![a] = IdleAppender]
    /\ UNCHANGED <<forced, message, updated, recheck, lookup, slotted, attempt, built>>
    /\ UNCHANGED <<now, posting, published, REQUEST_LOCKS, lockCount, held,
                   claim, handled, sweep, submit,
                   outcome, accepted, expiredWrites, expiryNotices, retracts,
                   notices, draft, refVars>>

NextAppend ==
    \/ \E a \in Appenders : AppendRead(a)
    \/ \E a \in Appenders, kind \in Kinds : AppendRow(a, kind)

SpecAppend == Init /\ [][NextAppend]_vars

(* ----------------------- generation_messages.py ----------------------- *)
\* A str is the sequence of its code points.  The literals of
\* generation_messages.py are given as the file holds them.
\* "photo"
Kind_photo == <<112, 104, 111, 116, 111>>

\* "image"
Kind_image == <<105, 109, 97, 103, 101>>

\* "img"
Kind_img == <<105, 109, 103>>

\* "video"
Kind_video == <<118, 105, 100, 101, 111>>

\* "sora"
Kind_sora == <<115, 111, 114, 97>>

\* "vid"
Kind_vid == <<118, 105, 100>>

\* the value of the keys "video", "sora" and "vid"
Label_video == <<8211, 8804, 8211, 8719, 8211, 165, 8211, 181, 8211, 230>>

\* the value of the keys "photo", "image" and "img"
Label_photo == <<8212, 209, 8211, 230, 8212, 199, 8211, 230>>

\* the default of GENERATION_ASSET_LABELS.get
Label_default == <<8212, 196, 8211, 181, 8211, 8721, 8212, 201, 8211, 170, 8212, 229,
                   8212, 199, 8211, 8734, 8212, 199>>

GENERATION_ASSET_LABELS ==
    (Kind_video :> Label_video) @@ (Kind_sora :> Label_video)
        @@ (Kind_vid :> Label_video) @@ (Kind_photo :> Label_photo)
        @@ (Kind_image :> Label_photo) @@ (Kind_img :> Label_photo)

\* the literal before the queue position
MessageHead ==
    <<63743, 252, 223, 230, 32, 8211, 243, 8211, 8734, 8211, 8747, 8211, 8734, 8211, 8721, 32,
      8211, 248, 8212, 196, 8211, 8719, 8211, 937, 8212, 232, 8212, 199, 46, 32,
      8211, 250, 8211, 181, 8212, 197, 8212, 199, 8211, 230, 32, 8211, 8804, 32,
      8211, 230, 8212, 225, 8211, 181, 8212, 196, 8211, 181, 8211, 165, 8211, 8719, 58, 32>>

\* the literal between the queue position and the label
MessageMiddle == <<46, 32, 8211, 252, 8212, 196, 8211, 8719, 8212, 224, 8211, 170, 8212, 235,
                   8211, 186, 32>>

\* the literal after the label
MessageTail == <<32, 8212, 197, 8212, 233, 8211, 165, 8211, 8734, 46>>

\* the characters str.strip() removes
Whitespace == {9, 10, 11, 12, 13, 28, 29, 30, 31, 32, 133, 160}

RECURSIVE Strip(_)
\* str.strip()
Strip(text) ==
    IF Len(text) = 0 THEN text
    ELSE IF text[1] \in Whitespace THEN Strip(Tail(text))
    ELSE IF text[Len(text)] \in Whitespace THEN Strip(SubSeq(text, 1, Len(text) - 1))
    ELSE text

\* str.lower() of a text whose cased characters are the letters A to Z
Lower(text) ==
    [i \in 1..Len(text) |-> IF text[i] >= 65 /\ text[i] <= 90 THEN text[i] + 32
                            ELSE text[i]]

RECURSIVE Decimal(_)
\* the f-string conversion of a non-negative int
Decimal(n) ==
    IF n < 10 THEN <<48 + n>> ELSE Append(Decimal(n \div 10), 48 + (n % 10))

\* format_generation_asset_label
format_generation_asset_label(asset_kind) ==
    LET normalized == Lower(Strip(asset_kind)) IN
    IF normalized \in DOMAIN GENERATION_ASSET_LABELS
    THEN GENERATION_ASSET_LABELS[normalized] ELSE Label_default

\* build_generation_queue_message
build_generation_queue_message(queue_position, asset_kind) ==
    MessageHead \o Decimal(queue_position) \o MessageMiddle
        \o format_generation_asset_label(asset_kind) \o MessageTail

\* the asset kinds of the calls: the six keys, keys in other case and with
\* blanks around them, and kinds that are no key
AssetKinds ==
    {Kind_photo, Kind_image, Kind_img, Kind_video, Kind_sora, Kind_vid,
     <<32, 80, 104, 111, 116, 111, 32>>,
     <<73, 77, 65, 71, 69>>,
     <<105, 109, 103, 10>>,
     <<86, 105, 100, 101, 111>>,
     <<9, 115, 111, 114, 97>>,
     <<86, 73, 68, 32>>,
     <<100, 111, 99, 117, 109, 101, 110, 116>>,
     <<>>,
     <<112, 104, 111, 116, 111, 115>>,
     <<112, 104, 111, 32, 116, 111>>,
     <<1092, 1086, 1090, 1086>>}

QueueMessageCalls ==
    {[pc |-> "call", queue_position |-> position, asset_kind |-> kind, text |-> <<>>] :
        position \in 1..MaxPosition, kind \in AssetKinds}

\* the call returns the message
BuildQueueMessage ==
    /\ message.pc = "call"
    /\ message' = [message EXCEPT
                     !.pc = "built",
                     !.text = build_generation_queue_message(message.queue_position,
                                                             message.asset_kind)]
    /\ UNCHANGED <<forced, appender, returned, updated, recheck, lookup, slotted, attempt, built>>
    /\ UNCHANGED <<engineVars, refVars>>

InitMessage ==
    /\ InitEngine
    /\ InitAux
    /\ message \in QueueMessageCalls
    /\ updated = NoUpdated
    /\ recheck = NoRecheck
    /\ lookup = NoLookup
    /\ slotted = NoSlotted
    /\ attempt = NoAttempt
    /\ built = NoBuilt

NextMessage == BuildQueueMessage

SpecMessage == InitMessage /\ [][NextMessage]_vars

(* ------------------ the re-read of on_callback_pick ------------------- *)
\* on_callback_pick after gs_update_request_fields: what the record that is
\* read again leads to.  notified tells whether the code goes on to the
\* notices of author and claimant.
AfterReread(updated_record) ==
    LET slots == get_request_slots(updated_record) IN
    IF ~updated_record.found
    THEN [outcome |-> "NotFound", notified |-> FALSE]
    ELSE IF slots.filled > slots.max_slots
    THEN [outcome |-> "Full", notified |-> FALSE]
    ELSE [outcome |-> "Accepted", notified |-> TRUE]

\* the records gs_find_request may return after the write; max_slots 0 is a
\* record without the field
UpdatedRecords ==
    {[pc |-> "read", found |-> found, filled_slots |-> filled, max_slots |-> max_slots,
      outcome |-> "", notified |-> FALSE] :
        found \in BOOLEAN, filled \in 0..MaxSlotsRead, max_slots \in 0..MaxSlotsRead}

\* the checks of the record that was read again, and the answer
Reread ==
    /\ updated.pc = "read"
    /\ LET after == AfterReread(updated) IN
         updated' = [updated EXCEPT !.pc = "done", !.outcome = after.outcome,
                                    !.notified = after.notified]
    /\ UNCHANGED <<forced, appender, returned, message, recheck, lookup, slotted, attempt, built>>
    /\ UNCHANGED <<engineVars, refVars>>

InitReread ==
    /\ InitEngine
    /\ InitAux
    /\ message = NoQueueMessage
    /\ updated \in UpdatedRecords
    /\ recheck = NoRecheck
    /\ lookup = NoLookup
    /\ slotted = NoSlotted
    /\ attempt = NoAttempt
    /\ built = NoBuilt

NextReread == Reread

SpecReread == InitReread /\ [][NextReread]_vars

(* --------------- the sweeper's checks of one request ------------------ *)
\* the statuses a record may carry
Statuses == {"open", "filled", "expired", "cancelled"}

\* the end timestamps a record may carry
EndsRead == {NoEnd} \cup (0..MaxTime)

\* a listed record, the record read again under the lock and the time of
\* the sweep
Rechecks ==
    {[pc |-> "listed",
      listed |-> [id |-> 1, status |-> listed_status, end_dt_iso |-> listed_end],
      latest |-> [found |-> found, status |-> latest_status, end_dt_iso |-> latest_end],
      now_local |-> now_local, writes |-> FALSE] :
        listed_status \in Statuses, listed_end \in EndsRead,
        found \in BOOLEAN, latest_status \in Statuses, latest_end \in EndsRead,
        now_local \in 0..MaxTime}

\* cleanup_expired_requests for one record, from the checks of the listed
\* record to the decision to write status expired
Recheck ==
    /\ recheck.pc = "listed"
    /\ recheck' = [recheck EXCEPT
                     !.pc = "done",
                     !.writes =
                         /\ ~SkipListed(recheck.listed, recheck.now_local)
                         /\ ~SkipLatest(recheck.latest, recheck.listed.end_dt_iso,
                                        recheck.now_local)]
    /\ UNCHANGED <<forced, appender, returned, message, updated, lookup, slotted, attempt, built>>
    /\ UNCHANGED <<engineVars, refVars>>

InitRecheck ==
    /\ InitEngine
    /\ InitAux
    /\ message = NoQueueMessage
    /\ updated = NoUpdated
    /\ recheck \in Rechecks
    /\ lookup = NoLookup
    /\ slotted = NoSlotted
    /\ attempt = NoAttempt
    /\ built = NoBuilt

NextRecheck == Recheck

SpecRecheck == InitRecheck /\ [][NextRecheck]_vars

(* ------------------- the sweeper at shutdown -------------------------- *)
\* the sweeper task after on_shutdown has cancelled and awaited it
CancelledSweep == [IdleSweep EXCEPT !.pc = "cancelled"]

\* on_shutdown: requests_cleanup_task.cancel().  CancelledError is raised in
\* the task at the await it is suspended in, whichever that is; no
\* "except Exception" of cleanup_expired_requests catches it, "async with"
\* leaves the lock, and periodic_requests_cleanup breaks out of its loop.
\* done tells whether the store or chat call that was in flight has taken
\* effect before the task is torn down.
SweepCancel(done) ==
    /\ sweep.pc # "cancelled"
    /\ sweep' = CancelledSweep
    /\ held' = held \ {<<sweep.lock, Sweeper>>}
    /\ IF done /\ sweep.pc = "retract"
       THEN /\ posting' = posting \ {SweepRid}
            /\ retracts' = [retracts EXCEPT ![SweepRid] = @ + 1]
       ELSE UNCHANGED <<posting, retracts>>
    /\ IF done /\ sweep.pc = "write"
       THEN /\ rows' = UpdateRequestFields(rows, SweepRid,
                           [status |-> "expired", channel_message_id |-> NoMessage])
            /\ expiredWrites' = [expiredWrites EXCEPT ![SweepRid] = @ + 1]
       ELSE UNCHANGED <<rows, expiredWrites>>
    /\ IF done /\ sweep.pc = "notify"
       THEN expiryNotices' = [expiryNotices EXCEPT ![SweepRid] = @ + 1]
       ELSE UNCHANGED expiryNotices
    /\ UNCHANGED <<notices, draft, refVars, auxVars>>
    /\ UNCHANGED <<now, published, REQUEST_LOCKS, lockCount,
                   claim, handled, submit, outcome, accepted>>

\* a run that ends with the shutdown of the process: one claimant, the
\* sweeper and a submit, and the cancellation of the sweeper at any moment
NextShutdown ==
    \/ Tick
    \/ \E id \in Ids : ClaimStart(FaultClaimant, id)
    \/ ClaimAcquire(FaultClaimant)
    \/ ClaimFind(FaultClaimant)
    \/ ClaimWrite(FaultClaimant)
    \/ ClaimFinish(FaultClaimant)
    \/ SweepList
    \/ SweepExamine
    \/ SweepAcquire
    \/ SweepFind
    \/ SweepRetract
    \/ SweepWrite
    \/ SweepNotify
    \/ \E done \in BOOLEAN : SweepCancel(done)
    \/ \E time_to \in EndTimes : SubmitAppend(1, "director", time_to)
    \/ SubmitPublish
    \/ SubmitSave

SpecShutdown == Init /\ [][NextShutdown]_vars

(* -------------------- the age check of a lookup ----------------------- *)
\* _should_refresh_cache with the age compared by >=
should_refresh_cache_at_ttl(updated_at, utcnow) ==
    IF updated_at = NoLoad THEN TRUE
    ELSE utcnow - updated_at >= CACHE_TTL_SECONDS

\* _should_refresh_cache: updated_at is SHOPS_CACHE_UPDATED_AT, and utcnow
\* is datetime.now(timezone.utc), both in seconds
should_refresh_cache(updated_at, utcnow) ==
    IF updated_at = NoLoad THEN TRUE
    ELSE utcnow - updated_at > CACHE_TTL_SECONDS

\* the ages at which a lookup is made: none, and those around the TTL
Ages == {0, 1} \cup ((CACHE_TTL_SECONDS - 2)..(CACHE_TTL_SECONDS + MaxOver))

\* the lookups: the time of the last load, if any, and the time of the call
Lookups ==
    {[pc |-> "call", updated_at |-> updated_at,
      now |-> (IF updated_at = NoLoad THEN 0 ELSE updated_at) + age,
      rebuilt |-> FALSE] :
        updated_at \in {NoLoad} \cup (0..MaxLoadedAt), age \in Ages}

\* a lookup (get_shops, get_station_shops, get_area_summary, ...):
\* _ensure_cache_fresh calls _refresh_shops_cache_sync if the check says so,
\* and the lookup then reads the caches
Lookup ==
    /\ lookup.pc = "call"
    /\ lookup' = [lookup EXCEPT
                    !.pc = "done",
                    !.rebuilt = should_refresh_cache(lookup.updated_at, lookup.now)]
    /\ UNCHANGED <<forced, appender, returned, message, updated, recheck, slotted, attempt, built>>
    /\ UNCHANGED <<engineVars, refVars>>

InitLookup ==
    /\ InitEngine
    /\ InitAux
    /\ message = NoQueueMessage
    /\ updated = NoUpdated
    /\ recheck = NoRecheck
    /\ lookup \in Lookups
    /\ slotted = NoSlotted
    /\ attempt = NoAttempt
    /\ built = NoBuilt

NextLookup == Lookup

SpecLookup == InitLookup /\ [][NextLookup]_vars

(* ------------------ get_request_slots on stored values ---------------- *)
PyInt(n) == [type |-> "int", int |-> n, text |-> <<>>]

PyStr(text) == [type |-> "str", int |-> 0, text |-> text]

\* bool(value)
Truthy(value) ==
    IF value.type = "NoneType" THEN FALSE
    ELSE IF value.type = "int" THEN value.int # 0
    ELSE Len(value.text) > 0

\* value or default
Or(value, default) == IF Truthy(value) THEN value ELSE PyInt(default)

IsDigit(c) == c >= 48 /\ c <= 57

\* the digits of an int literal: digits with single "_" between them
DigitsOk(text) ==
    /\ Len(text) > 0
    /\ \A i \in 1..Len(text) : IsDigit(text[i]) \/ text[i] = 95
    /\ text[1] # 95
    /\ text[Len(text)] # 95
    /\ \A i \in 1..(Len(text) - 1) : ~(text[i] = 95 /\ text[i + 1] = 95)

RECURSIVE DigitsValue(_)
\* the number the digits of an int literal stand for
DigitsValue(text) ==
    IF Len(text) = 0 THEN 0
    ELSE LET front == SubSeq(text, 1, Len(text) - 1)
             last == text[Len(text)]
         IN IF last = 95 THEN DigitsValue(front)
            ELSE 10 * DigitsValue(front) + (last - 48)

\* int(value) of an int or a str: ok is FALSE where int raises ValueError
int(value) ==
    IF value.type = "int" THEN [ok |-> TRUE, value |-> value.int]
    ELSE LET text == Strip(value.text)
             signed == Len(text) > 0 /\ text[1] \in {43, 45}
             digits == IF signed THEN Tail(text) ELSE text
         IN IF ~DigitsOk(digits) THEN [ok |-> FALSE, value |-> 0]
            ELSE [ok |-> TRUE,
                  value |-> IF signed /\ text[1] = 45 THEN 0 - DigitsValue(digits)
                            ELSE DigitsValue(digits)]

\* try: int(value or default) / except (TypeError, ValueError): default
IntOr(value, default) ==
    LET n == int(Or(value, default)) IN IF n.ok THEN n.value ELSE default

\* get_request_slots of a record as gs_find_request or the store hands it
\* over: every value is None, an int or the str of a cell
request_slots(max_slots, filled_slots) ==
    get_request_slots([max_slots |-> IntOr(max_slots, MAX_REQUEST_SLOTS_DEFAULT),
                       filled_slots |-> IntOr(filled_slots, 0)])

\* the values of max_slots and filled_slots of a record: None, ints below
\* zero, zero and above the default, and the cells
\* "", "abc", "3", " 4 ", "-2", "+5", "07", "3.5", "9", "0", "1_0", "_1", "  ", "-", "1__0"
StoredValues ==
    {PyNone} \cup {PyInt(n) : n \in (0 - 2)..MaxSlotsRead}
      \cup {PyStr(text) : text \in
        {<<>>,
         <<97, 98, 99>>,
         <<51>>,
         <<32, 52, 32>>,
         <<45, 50>>,
         <<43, 53>>,
         <<48, 55>>,
         <<51, 46, 53>>,
         <<57>>,
         <<48>>,
         <<49, 95, 48>>,
         <<95, 49>>,
         <<32, 32>>,
         <<45>>,
         <<49, 95, 95, 48>>}}

SlottedRecords ==
    {[pc |-> "read", max_slots |-> max_slots, filled_slots |-> filled_slots,
      filled |-> 0, capacity |-> 0] :
        max_slots \in StoredValues, filled_slots \in StoredValues}

\* filled_slots, max_slots = get_request_slots(record)
GetRequestSlots ==
    /\ slotted.pc = "read"
    /\ LET slots == request_slots(slotted.max_slots, slotted.filled_slots) IN
         slotted' = [slotted EXCEPT !.pc = "done", !.filled = slots.filled,
                                    !.capacity = slots.max_slots]
    /\ UNCHANGED <<forced, appender, returned, message, updated, recheck, lookup, attempt, built>>
    /\ UNCHANGED <<engineVars, refVars>>

InitSlots ==
    /\ InitEngine
    /\ InitAux
    /\ message = NoQueueMessage
    /\ updated = NoUpdated
    /\ recheck = NoRecheck
    /\ lookup = NoLookup
    /\ slotted \in SlottedRecords
    /\ attempt = NoAttempt
    /\ built = NoBuilt

NextSlots == GetRequestSlots

SpecSlots == InitSlots /\ [][NextSlots]_vars

(* ------------- one claim on a request of the store contract ----------- *)
\* the claimant lists a request may hold
ClaimantLists == {<<>>, <<2>>}

\* the requests gs_find_request may return under the store contract, with
\* the fields submit and earlier claims have written; max_slots 0 is a
\* request without the field
Requests ==
    {[id |-> 1, kind |-> kind, author_id |-> 1, status |-> status,
      channel_message_id |-> MessageIdOf(1), end_dt_iso |-> end_dt_iso,
      max_slots |-> max_slots, filled_slots |-> Len(ids),
      picked_ids |-> IF kind = "director" THEN ids ELSE <<>>,
      invited_ids |-> IF kind = "director" THEN <<>> ELSE ids] :
        kind \in Kinds, status \in Statuses, end_dt_iso \in {NoEnd, 0},
        max_slots \in {0, 1}, ids \in ClaimantLists}

Attempts ==
    {[pc |-> "call", found |-> found, request |-> request, picker |-> picker,
      now_local |-> now_local, outcome |-> "", wrote |-> FALSE, after |-> request] :
        found \in BOOLEAN, request \in Requests, picker \in Users,
        now_local \in 0..MaxTime}

\* on_callback_pick from gs_find_request to its first answer or to the
\* accepted write: the checks, and gs_update_request_fields if they call it
ClaimAttempt ==
    /\ attempt.pc = "call"
    /\ LET record == [found |-> attempt.found] @@ attempt.request
           v == ValidateClaim(record, attempt.picker, attempt.now_local)
       IN attempt' = [attempt EXCEPT
                        !.pc = "done",
                        !.outcome = v.outcome,
                        !.wrote = v.write,
                        !.after = IF v.write
                                  THEN UpdateRequestFields(<<attempt.request>>,
                                           attempt.request.id, v.updates)[1]
                                  ELSE attempt.request]
    /\ UNCHANGED <<forced, appender, returned, message, updated, recheck, lookup, slotted, built>>
    /\ UNCHANGED <<engineVars, refVars>>

InitAttempt ==
    /\ InitEngine
    /\ InitAux
    /\ message = NoQueueMessage
    /\ updated = NoUpdated
    /\ recheck = NoRecheck
    /\ lookup = NoLookup
    /\ slotted = NoSlotted
    /\ attempt \in Attempts
    /\ built = NoBuilt

NextAttempt == ClaimAttempt

SpecAttempt == InitAttempt /\ [][NextAttempt]_vars

(* ---------------- claims whose store or chat calls fail --------------- *)
\* the answer of the outer "except Exception" of on_callback_pick
ClaimError(u) == [user |-> u, rid |-> claim[u].rid, result |-> "Error"]

\* gs_find_request under the lock raises: the outer except answers that
\* something went wrong, and "async with" leaves the lock
ClaimFindFails(u) ==
    /\ claim[u].pc = "locked"
    /\ outcome' = ClaimError(u)
    /\ claim' = [claim EXCEPT ![u] = IdleClaim]
    /\ held' = held \ {<<claim[u].lock, u>>}
    /\ UNCHANGED <<notices, draft, refVars, auxVars>>
    /\ UNCHANGED <<now, rows, posting, published, REQUEST_LOCKS, lockCount,
                   handled, sweep, submit,
                   accepted, expiredWrites, expiryNotices, retracts>>

\* gs_update_request_fields of on_callback_pick raises and writes nothing
ClaimWriteFails(u) ==
    /\ claim[u].pc = "write"
    /\ outcome' = ClaimError(u)
    /\ claim' = [claim EXCEPT ![u] = IdleClaim]
    /\ held' = held \ {<<claim[u].lock, u>>}
    /\ UNCHANGED <<notices, draft, refVars, auxVars>>
    /\ UNCHANGED <<now, rows, posting, published, REQUEST_LOCKS, lockCount,
                   handled, sweep, submit,
                   accepted, expiredWrites, expiryNotices, retracts>>

\* after the write, gs_find_request, bot.get_chat or gs_get_user raises:
\* the outer except answers that something went wrong, and no notice is sent
ClaimFinishFails(u) ==
    /\ claim[u].pc = "finish"
    /\ outcome' = ClaimError(u)
    /\ claim' = [claim EXCEPT ![u] = IdleClaim]
    /\ held' = held \ {<<claim[u].lock, u>>}
    /\ UNCHANGED <<notices, draft, refVars, auxVars>>
    /\ UNCHANGED <<now, rows, posting, published, REQUEST_LOCKS, lockCount,
                   handled, sweep, submit,
                   accepted, expiredWrites, expiryNotices, retracts>>

\* a run of submits and claims in which every store and chat call of a
\* claim may fail
NextErrors ==
    \/ \E u \in Users, id \in Ids : ClaimStart(u, id)
    \/ \E u \in Users : ClaimAcquire(u)
    \/ \E u \in Users : ClaimFind(u)
    \/ \E u \in Users : ClaimFindFails(u)
    \/ \E u \in Users : ClaimWrite(u)
    \/ \E u \in Users : ClaimWriteFails(u)
    \/ \E u \in Users : ClaimFinish(u)
    \/ \E u \in Users : ClaimFinishFails(u)
    \/ \E author \in Authors, kind \in Kinds, time_to \in EndTimes :
           SubmitAppend(author, kind, time_to)
    \/ SubmitPublish
    \/ SubmitSave

SpecErrors == Init /\ [][NextErrors]_vars

(* ------------- every call returns, with a value or an error ----------- *)
\* handle_post_publication of the first request of the run
SubmitFirst(time_to) ==
    /\ rows = <<>>
    /\ SubmitAppend(1, "director", time_to)

\* a claimant, the sweeper and the submit of one request, with every store and
\* chat call of claim and sweeper free to raise
NextReturns ==
    \/ Tick
    \/ \E id \in Ids : ClaimStart(FaultClaimant, id)
    \/ ClaimAcquire(FaultClaimant)
    \/ ClaimFind(FaultClaimant)
    \/ ClaimFindFails(FaultClaimant)
    \/ ClaimWrite(FaultClaimant)
    \/ ClaimWriteFails(FaultClaimant)
    \/ ClaimFinish(FaultClaimant)
    \/ ClaimFinishUndelivered(FaultClaimant)
    \/ ClaimFinishFails(FaultClaimant)
    \/ SweepList
    \/ SweepExamine
    \/ SweepAcquire
    \/ SweepFind
    \/ SweepFindFails
    \/ SweepRetract
    \/ SweepRetractFails
    \/ SweepWrite
    \/ SweepWriteFails
    \/ SweepNotify
    \/ SweepNotifyFails
    \/ \E time_to \in EndTimes : SubmitFirst(time_to)
    \/ SubmitPublish
    \/ SubmitSave

\* the steps of the claim that is under way, each the return of the call
\* it awaits
ClaimReturns ==
    \/ ClaimAcquire(FaultClaimant)
    \/ ClaimFind(FaultClaimant)
    \/ ClaimWrite(FaultClaimant)
    \/ ClaimFinish(FaultClaimant)

\* the steps of the sweep that is under way
SweepReturns ==
    \/ SweepExamine
    \/ SweepAcquire
    \/ SweepFind
    \/ SweepRetract
    \/ SweepWrite
    \/ SweepNotify

\* a call that is awaited returns in the end, and a lock that stays free is
\* given to the task that waits for it
SpecReturns ==
    /\ Init
    /\ [][NextReturns]_vars
    /\ WF_vars(ClaimReturns)
    /\ WF_vars(SweepReturns)

(* ------------- the indices built from a fetched Shops sheet ----------- *)
\* the id cell of a row that holds nothing
BlankId == 0

\* the id cells of the rows
SheetIds == {BlankId, 1}

\* the metro_1, metro_2 and metro_3 cells of a row, "" for a blank cell
MetroCells == {<<"", "", "">>, <<"A", "", "">>, <<"B", "", "">>,
               <<"A", "B", "">>, <<"B", "", "A">>, <<"A", "A", "">>}

\* the dist_N_m cell next to the metro_N cell, as _parse_distance gives it
DistanceCell(n) == 100 * n

\* a row without a name, which the load passes over
UnnamedRow == [id |-> BlankId, name |-> "", is_active |-> TRUE,
               metros |-> <<"A", "B", "">>]

\* the rows of get_all_records, is_active as _parse_bool gives it
SheetRows ==
    {UnnamedRow} \cup
    [id : SheetIds, name : {"shop"}, is_active : BOOLEAN, metros : MetroCells]

Sheets == UNION {[1..n -> SheetRows] : n \in 0..MaxSheetRows}

\* shop_id of the k-th row: the id cell, or the ordinal idx - 1 of the row
\* (enumerate starts at 2) when the cell is blank
ShopIdOf(values, k) == IF values[k].id # BlankId THEN values[k].id ELSE k

\* the rows the first loop does not skip
NamedRows(values) == {k \in 1..Len(values) : values[k].name # ""}

\* shops: shops[shop_id] = record, so that of two rows with one shop_id the
\* later one stays
SheetShops(values) ==
    LET ids == {ShopIdOf(values, k) : k \in NamedRows(values)}
        last(id) == CHOOSE k \in NamedRows(values) :
                        /\ ShopIdOf(values, k) = id
                        /\ \A j \in NamedRows(values) :
                              ShopIdOf(values, j) = id => j <= k
    IN [id \in ids |->
           [id |-> id, name |-> values[last(id)].name,
            is_active |-> values[last(id)].is_active,
            metros |-> {values[last(id)].metros[n] : n \in 1..3} \ {""}]]

\* metro_map: per station and shop_id the smallest distance of the cells of
\* every row that is not skipped
SheetMetroMap(values) ==
    LET cells == {c \in NamedRows(values) \X (1..3) : values[c[1]].metros[c[2]] # ""}
        station(c) == values[c[1]].metros[c[2]]
        near(st) == {c \in cells : station(c) = st}
        least(S) == CHOOSE d \in S : \A e \in S : d <= e
    IN [st \in {station(c) : c \in cells} |->
           [id \in {ShopIdOf(values, c[1]) : c \in near(st)} |->
               least({DistanceCell(c[2]) :
                        c \in {d \in near(st) : ShopIdOf(values, d[1]) = id}})]]

\* the locations of a station that list every shop near it, active or not
StationLocations_any_shop(shops, per_shop) ==
    {[shop_id |-> s_id, shop_name |-> shops[s_id].name, distance_m |-> per_shop[s_id]] :
        s_id \in {x \in DOMAIN per_shop : x \in DOMAIN shops}}

\* the locations of a station: the shops of per_shop that are in shops and
\* active (the tuple is given as the set of its elements: one per shop_id)
StationLocations(shops, per_shop) ==
    {[shop_id |-> s_id, shop_name |-> shops[s_id].name, distance_m |-> per_shop[s_id]] :
        s_id \in {x \in DOMAIN per_shop : x \in DOMAIN shops /\ shops[x].is_active}}

\* _resolve_station_area: the area of the MetroAreas sheet, or the default
\* area when the mapping is empty after a failed fetch
ResolveStationArea(station, areas_ok) ==
    IF areas_ok THEN AreaSheet[station] ELSE DEFAULT_AREA_ID

\* _load_reference_cache from the fetched rows to the values it assigns
BuildIndices(values, areas_ok) ==
    LET shops == SheetShops(values)
        metro_map == SheetMetroMap(values)
        locations(st) == StationLocations(shops, metro_map[st])
        stations == {st \in DOMAIN metro_map : locations(st) # {}}
        summary(st) == [name |-> st, area_id |-> ResolveStationArea(st, areas_ok),
                        shop_count |-> Cardinality(locations(st))]
        of_area(a) == {st \in stations : ResolveStationArea(st, areas_ok) = a}
        area_shop_set(a) ==
            UNION {{loc.shop_id : loc \in locations(st)} : st \in of_area(a)}
    IN [SHOPS_CACHE |-> shops,
        METRO_CACHE |-> [st \in stations |-> locations(st)],
        STATION_SUMMARY_BY_NAME |-> [st \in stations |-> summary(st)],
        AREA_SUMMARY_CACHE |->
            [a \in {ResolveStationArea(st, areas_ok) : st \in stations} |->
                [area_id |-> a,
                 shop_count |-> Cardinality(area_shop_set(a)),
                 stations |-> {summary(st) : st \in of_area(a)}]]]

\* the fetched sheets a rebuild may start from
Builds == [pc : {"fetched"}, values : Sheets, areas_ok : BOOLEAN,
           indices : {NoIndices}]

\* _load_reference_cache after its fetches
LoadReferenceCacheCall ==
    /\ built.pc = "fetched"
    /\ built' = [built EXCEPT !.pc = "installed",
                              !.indices = BuildIndices(built.values, built.areas_ok)]
    /\ UNCHANGED <<forced, appender, returned, message, updated, recheck, lookup, slotted, attempt>>
    /\ UNCHANGED <<engineVars, refVars>>

InitBuilt ==
    /\ InitEngine
    /\ InitAux
    /\ message = NoQueueMessage
    /\ updated = NoUpdated
    /\ recheck = NoRecheck
    /\ lookup = NoLookup
    /\ slotted = NoSlotted
    /\ attempt = NoAttempt
    /\ built \in Builds

NextBuilt == LoadReferenceCacheCall

SpecBuilt == InitBuilt /\ [][NextBuilt]_vars

(* ------------- the write of submit after the publication -------------- *)
\* handle_post_publication from gs_append_request to bot.send_message with no
\* other task running in between: the request is stored open and its posting
\* is public
SubmitPosted(author, kind, time_to) ==
    /\ submit.pc = "idle"
    /\ Len(rows) < MaxRequests
    /\ rows' = AppendRequest(rows, [kind |-> kind, author_id |-> author,
                                    status |-> "open", time_to |-> time_to])
    /\ posting' = posting \cup {NextRequestId(rows)}
    /\ published' = published \cup {NextRequestId(rows)}
    /\ submit' = [pc |-> "save", rid |-> NextRequestId(rows)]
    /\ UNCHANGED <<notices, draft, refVars, auxVars>>
    /\ UNCHANGED <<now, REQUEST_LOCKS, lockCount, held,
                   claim, handled, sweep,
                   outcome, accepted, expiredWrites, expiryNotices, retracts>>

\* claims and sweeps of requests whose posting is public, and the write of
\* submit that follows the publication
NextPosted ==
    \/ Tick
    \/ \E u \in Users, id \in Ids : ClaimStart(u, id)
    \/ \E u \in Users : ClaimAcquire(u)
    \/ \E u \in Users : ClaimFind(u)
    \/ \E u \in Users : ClaimWrite(u)
    \/ \E u \in Users : ClaimFinish(u)
    \/ SweepList
    \/ SweepExamine
    \/ SweepAcquire
    \/ SweepFind
    \/ SweepRetract
    \/ SweepWrite
    \/ SweepNotify
    \/ \E author \in Authors, kind \in Kinds, time_to \in EndTimes :
           SubmitPosted(author, kind, time_to)
    \/ SubmitSave

SpecPosted == Init /\ [][NextPosted]_vars

(* ======================= properties of the engine ===================== *)
Terminal == {"filled", "expired", "cancelled"}

Stored(id) == FindRow(rows, id) # 0

RowOf(id) == rows[FindRow(rows, id)]

Status(id) == RowOf(id).status

AuthorOf(id) == RowOf(id).author_id

\* the claimant list of a request: picked_ids of a director's request,
\* invited_ids of a worker's
Claimants(id) ==
    IF RowOf(id).kind = "director" THEN RowOf(id).picked_ids
    ELSE RowOf(id).invited_ids

\* the capacity of every submitted request: submit sets max_slots to the default
Capacity == MAX_REQUEST_SLOTS_DEFAULT

Overdue(id) == now > RowOf(id).time_to + GraceMinutes

RECURSIVE SumOver(_, _)
SumOver(f, S) ==
    IF S = {} THEN 0
    ELSE LET x == CHOOSE y \in S : TRUE IN f[x] + SumOver(f, S \ {x})

\* the claims on a request that were answered as accepted
AcceptedCount(id) == SumOver(accepted[id], Users)

\* the users with a claim on the request that was answered as accepted
AcceptedUsers(id) == {u \in Users : accepted[id][u] > 0}

NoDuplicates(seq) == \A i, j \in 1..Len(seq) : seq[i] = seq[j] => i = j

\* C1: the number of accepted claims of a request never exceeds its capacity,
\* and the request is filled exactly when that number has reached the capacity.
C1_CapacityInvariant ==
    \A id \in Ids : Stored(id) =>
        /\ AcceptedCount(id) <= Capacity
        /\ (Status(id) = "filled") <=> (AcceptedCount(id) = Capacity)

\* C2: no lost update: every claimant whose claim was accepted is recorded in
\* the claimant list of the request, and no more than capacity are accepted.
C2_NoLostUpdate ==
    \A id \in Ids : Stored(id) =>
        /\ AcceptedUsers(id) \subseteq Range(Claimants(id))
        /\ AcceptedCount(id) <= Capacity

\* C3: no claimant id occurs more than once in picked_ids or invited_ids of
\* any request.
C3_NoDoubleClaim ==
    \A i \in 1..Len(rows) :
        NoDuplicates(rows[i].picked_ids) /\ NoDuplicates(rows[i].invited_ids)

\* the same claimant has claimed a request twice and was answered twice
C3_Witness ==
    \E id \in Ids, u \in Users :
        /\ Stored(id)
        /\ accepted[id][u] >= 2
        /\ u \in Range(Claimants(id))

\* C4 as stated: a claim by the author of the request is always answered
\* with SelfClaim, whatever the status of the request.
C4_SelfClaimAlways ==
    (outcome.rid # 0 /\ AuthorOf(outcome.rid) = outcome.user)
        => outcome.result = "SelfClaim"

\* C4 as amended: a claim by the author whose record is read with a status
\* other than expired or cancelled is answered with SelfClaim; read with
\* status expired or cancelled it is answered as already terminal, and in
\* neither case is anything written.
C4_SelfClaimUnlessClosed ==
    [][\A u \in Users :
          (/\ claim[u].pc = "locked"
           /\ claim'[u].pc # "locked"
           /\ Stored(claim[u].rid)
           /\ AuthorOf(claim[u].rid) = u)
          => /\ claim'[u].pc = "idle"
             /\ rows' = rows
             /\ outcome'.user = u
             /\ outcome'.result =
                  IF Status(claim[u].rid) \in {"expired", "cancelled"}
                  THEN "AlreadyTerminal" ELSE "SelfClaim"]_vars

\* the author has claimed the own open request and was answered SelfClaim
C4_Witness ==
    /\ outcome.rid # 0
    /\ AuthorOf(outcome.rid) = outcome.user
    /\ outcome.result = "SelfClaim"
    /\ Status(outcome.rid) = "open"

\* a request has had a terminal status at some point: the only terminal
\* status the engine writes before a request is filled is expired
EverTerminal(id) == Status(id) \in Terminal \/ expiredWrites[id] > 0

\* C5: once the status of a request is filled, expired or cancelled, no
\* later step changes its claimant list.
C5_TerminalMonotonic ==
    [][\A id \in Ids :
          (Stored(id) /\ EverTerminal(id)) => Claimants(id)' = Claimants(id)]_vars

\* C6: filled, expired and cancelled are absorbing: no step changes such a
\* status to another value.
C6_TerminalAbsorbing ==
    [][\A id \in Ids :
          (Stored(id) /\ Status(id) \in Terminal) => Status(id)' = Status(id)]_vars

\* the tasks inside their read-validate-write section of a request
InSection(id) ==
    {u \in Users : claim[u].rid = id /\ claim[u].pc \in {"locked", "write", "finish"}}
    \cup {w \in {Sweeper} : /\ sweep.pc \in {"locked", "retract", "write", "notify"}
                            /\ SweepRid = id}

\* C7: at most one task is inside its read-validate-write section of a
\* request at any time, and claim and sweeper use the lock that the registry
\* holds for the id of the request.
C7_MutualExclusion ==
    \A id \in Ids :
        /\ Cardinality(InSection(id)) <= 1
        /\ \A u \in Users :
              (claim[u].rid = id /\ claim[u].pc # "idle")
                  => claim[u].lock = REQUEST_LOCKS[id]
        /\ (sweep.pc \in {"wait", "locked", "retract", "write", "notify"} /\ SweepRid = id)
              => sweep.lock = REQUEST_LOCKS[id]

\* a claim is inside its section while the sweeper waits for the same request
C7_Witness ==
    \E u \in Users :
        /\ claim[u].pc \in {"write", "finish"}
        /\ sweep.pc = "wait"
        /\ SweepRid = claim[u].rid
        /\ sweep.lock = claim[u].lock

\* C8: a claim by a non-author that reads a request whose end plus the grace
\* period has passed is answered as expired: it is never accepted and never
\* answered Full.
C8_OverdueClaimExpired ==
    [][\A u \in Users :
          (/\ claim[u].pc = "locked"
           /\ claim'[u].pc # "locked"
           /\ Stored(claim[u].rid)
           /\ Overdue(claim[u].rid)
           /\ AuthorOf(claim[u].rid) # u)
          => (IF claim'[u].pc = "write" THEN claim'[u].outcome
              ELSE outcome'.result) \in {"Expired", "AlreadyTerminal"}]_vars

\* C9: the sweeps over one request retract its posting at most once and
\* notify its author at most once.
C9_SweepIdempotent ==
    \A id \in Ids : expiryNotices[id] <= 1 /\ retracts[id] <= 1

\* C10: status expired is written exactly once for a request: never a
\* second time.
C10_ExpiredOnce ==
    \A id \in Ids : expiredWrites[id] <= 1

C12_FilledSlotsIsLength ==
    \A i \in 1..Len(rows) :
        LET ids == IF rows[i].kind = "director" THEN rows[i].picked_ids
                   ELSE rows[i].invited_ids
        IN  /\ rows[i].filled_slots = Len(ids)
            /\ Len(ids) <= Capacity

\* a claim was accepted and is recorded: the list and the count are not empty
C12_Witness ==
    \E id \in Ids :
        /\ Stored(id)
        /\ AcceptedCount(id) > 0
        /\ Len(Claimants(id)) > 0
        /\ RowOf(id).filled_slots > 0

\* C13: the author of a request is never an element of its claimant list.
C13_AuthorNotClaimant ==
    \A i \in 1..Len(rows) :
        /\ \A k \in 1..Len(rows[i].picked_ids) : rows[i].picked_ids[k] # rows[i].author_id
        /\ \A k \in 1..Len(rows[i].invited_ids) : rows[i].invited_ids[k] # rows[i].author_id

\* the author has claimed the own request, which already has a claimant
C13_Witness ==
    /\ outcome.rid # 0
    /\ Stored(outcome.rid)
    /\ AuthorOf(outcome.rid) = outcome.user
    /\ outcome.result = "SelfClaim"
    /\ Len(Claimants(outcome.rid)) > 0

\* the listed records after the one the sweep is at that qualify for expiry
RemainingOverdue ==
    {j \in (sweep.i + 1)..Len(sweep.records) :
        ~SkipListed(sweep.records[j], sweep.now_local)}

\* C17: a sweep never ends while listed overdue requests remain to be
\* processed, whatever fails for the request it is at.
C17_SweepIsolation ==
    [][(sweep.pc # "sleep" /\ RemainingOverdue # {}) => sweep'.pc # "sleep"]_vars

\* C18: an undelivered notice changes neither the answer to the claim, which
\* is still accepted, nor the stored requests, and the sweep goes on with the
\* next listed record.
C18_NoticeFailureHarmless ==
    [][/\ \A u \in Users :
            (/\ claim[u].pc = "finish"
             /\ claim'[u].pc = "idle"
             /\ Stored(claim[u].rid)
             /\ notices' # notices + 2)
            => /\ outcome' = [user |-> u, rid |-> claim[u].rid, result |-> "Accepted"]
               /\ accepted'[claim[u].rid][u] = accepted[claim[u].rid][u] + 1
               /\ rows' = rows
       /\ (/\ sweep.pc = "notify"
           /\ sweep'.pc # "notify"
           /\ expiryNotices' = expiryNotices)
          => /\ rows' = rows
             /\ sweep.i < Len(sweep.records)
                  => /\ sweep'.pc = "scan"
                     /\ sweep'.i = sweep.i + 1
                     /\ sweep'.records = sweep.records]_vars

\* a claim was accepted although a notice was not delivered, and the sweeper
\* is at its second record after the notice for the first was not delivered
C18_Witness ==
    /\ outcome.result = "Accepted"
    /\ notices < 2 * AcceptedCount(outcome.rid)
    /\ sweep.pc = "scan"
    /\ sweep.i = 2
    /\ expiredWrites[sweep.records[1].id] = 1
    /\ expiryNotices[sweep.records[1].id] = 0
    /\ Status(sweep.records[1].id) = "expired"

\* the conditions of a valid time slot, at the moment at
SlotValid(date, time_from, time_to, at) ==
    /\ date >= at \div MinutesPerDay
    /\ time_from < time_to
    /\ (date = at \div MinutesPerDay) => time_from >= at % MinutesPerDay
    /\ time_from % 15 = 0
    /\ time_to % 15 = 0
    /\ time_to - time_from >= 60
    /\ time_to - time_from <= 12 * 60

\* C19: validate_timeslot reports no error exactly for a date not before
\* today, start before end, a start not before the current time on the day
\* itself, start and end on 15-minute steps and a duration of 1 to 12 hours;
\* the range 10:07-10:22 is rejected.
C19_ValidateTimeslot ==
    draft.pc \in {"ready", "rejected"} =>
        /\ (draft.error = NoError) <=>
               SlotValid(draft.date, draft.time_from, draft.time_to, draft.at)
        /\ (draft.pc = "ready") <=> (draft.error = NoError)
        /\ (draft.time_from = HM(10, 7) /\ draft.time_to = HM(10, 22)) => draft.pc = "rejected"

\* a range off the 15-minute step that is long enough was rejected, after a
\* valid draft had been confirmed
C19_Witness ==
    /\ Len(rows) = 1
    /\ draft.pc = "rejected"
    /\ draft.time_from = HM(10, 7)
    /\ draft.time_to = HM(12, 0)
    /\ draft.date > draft.at \div MinutesPerDay

\* C20: every request is appended with a time slot that is valid at the
\* moment of the append.
C20_ValidAtAppend ==
    [][Len(rows') > Len(rows) =>
          SlotValid(draft.date, draft.time_from, draft.time_to, now)]_vars

\* C14: what a conversation reads in several lookups comes from one
\* snapshot: the station it picked from its list has as many shops as the
\* list said, and every shop read under the station is in the shop index
\* read afterwards.
C14_SnapshotAtomicity ==
    /\ reader.pc \in {"shops", "done"} =>
          \E summary \in reader.stations :
              /\ summary.name = reader.station
              /\ summary.shop_count = Cardinality(reader.locations)
    /\ reader.pc = "done" =>
          \A location \in reader.locations : location.shop_id \in reader.shops

\* the stations that some row of the Shops sheet, as loaded, names
Listed(values) == UNION {values[id].metros : id \in DOMAIN values}

\* the indices of the caches, without the time of the load
Indices(c) == <<c.SHOPS_CACHE, c.METRO_CACHE, c.STATION_SUMMARY_BY_NAME,
                c.AREA_SUMMARY_CACHE>>

\* C15: when a load replaces the caches and a station that the rows of the
\* previous load named is named by no row any more, no lookup has an entry
\* for the station afterwards, and every active shop that a row still lists
\* under another station is found under that station with its data.
C15_RemovedStation ==
    [][Indices(cache') # Indices(cache) =>
          \A st \in Listed(cache.SHOPS_CACHE) \ Listed(cache'.SHOPS_CACHE) :
              /\ st \notin DOMAIN cache'.METRO_CACHE
              /\ st \notin DOMAIN cache'.STATION_SUMMARY_BY_NAME
              /\ \A a \in DOMAIN cache'.AREA_SUMMARY_CACHE :
                    \A summary \in cache'.AREA_SUMMARY_CACHE[a].stations :
                        summary.name # st
              /\ \A id \in DOMAIN cache'.SHOPS_CACHE :
                    \A other \in cache'.SHOPS_CACHE[id].metros :
                        cache'.SHOPS_CACHE[id].is_active =>
                            /\ other \in DOMAIN cache'.METRO_CACHE
                            /\ ShopLocation(id, other) \in cache'.METRO_CACHE[other]
                            /\ other \in DOMAIN cache.METRO_CACHE
                                  => \A old \in cache.METRO_CACHE[other] :
                                         old.shop_id = id
                                             => old \in cache'.METRO_CACHE[other]]_vars

\* a conversation still keeps the summary of a station that the caches, after
\* a second load, no longer know, while a shop of that station is still
\* found under another station
C15_Witness ==
    /\ loads.n >= 2
    /\ cache.SHOPS_CACHE_UPDATED_AT = "fresh"
    /\ "B" \in DOMAIN cache.METRO_CACHE
    /\ ShopLocation(1, "B") \in cache.METRO_CACHE["B"]
    /\ \E summary \in reader.stations :
          /\ summary.name = "A"
          /\ "A" \notin DOMAIN cache.METRO_CACHE
          /\ "A" \notin Listed(cache.SHOPS_CACHE)

\* C16: a load with a failed fetch, of the Shops sheet or of the MetroAreas
\* sheet, leaves every index of the loaded caches as it was.
C16_FailedLoadKeepsSnapshot ==
    [][(/\ loads'.n = loads.n + 1
        /\ loads'.failed
        /\ cache.SHOPS_CACHE_UPDATED_AT # "none")
       => Indices(cache') = Indices(cache)]_vars


\* C21: every append returns a positive id that no other append returns, and
\* the id of an appended row is greater than every id the store held before
\* it, also when two submits run at the same time.
C21_AppendUniqueIds ==
    /\ \A i \in 1..Len(returned) : returned[i] > 0
    /\ \A i, j \in 1..Len(returned) : i # j => returned[i] # returned[j]
    /\ \A i \in 1..Len(rows) : \A j \in 1..(i - 1) : rows[j].id < rows[i].id


\* C22: with the forced refresh, the timer-driven refresh and the rebuild of
\* a stale read running at the same time, the active indices are at every
\* moment those of one single rebuild, and a forced refresh that fetched the
\* catalog the active indices were built from leaves their content as it is.
C22_ConcurrentRefresh ==
    [][/\ cache'.SHOPS_CACHE_UPDATED_AT # "none" =>
              \E areas_ok \in BOOLEAN :
                  Indices(cache') = Indices(BuildCache(cache'.SHOPS_CACHE, areas_ok))
       /\ (/\ forced.pc = "install"
           /\ forced'.pc = "idle"
           /\ forced.values = cache.SHOPS_CACHE)
          => Indices(cache') = Indices(cache)]_vars


\* text[i..] starts with noun for some i
Contains(text, noun) ==
    \E i \in 1..(Len(text) - Len(noun) + 1) : SubSeq(text, i, i + Len(noun) - 1) = noun

\* the nouns the message is to hold: photo, video and the generic one
NounPhoto == <<1092, 1086, 1090, 1086>>

NounVideo == <<1074, 1080, 1076, 1077, 1086>>

NounGeneric == <<1088, 1077, 1079, 1091, 1083, 1100, 1090, 1072, 1090>>

\* C23: the queue message holds the photo noun and not the video noun when
\* the trimmed, lower-cased kind is photo, image or img, the video noun when
\* it is video, sora or vid, and the generic noun for every other kind.
C23_QueueMessageNoun ==
    message.pc = "built" =>
        LET kind == Lower(Strip(message.asset_kind)) IN
        IF kind \in {Kind_photo, Kind_image, Kind_img}
        THEN Contains(message.text, NounPhoto) /\ ~Contains(message.text, NounVideo)
        ELSE IF kind \in {Kind_video, Kind_sora, Kind_vid}
        THEN Contains(message.text, NounVideo)
        ELSE Contains(message.text, NounGeneric)


\* the outcome of the first check, in the order NotFound, AlreadyTerminal,
\* SelfClaim, Expired, DuplicateClaim, Full, that fails for a claim of user u
\* on the stored request id; Accepted if none fails
FirstFailing(id, u) ==
    IF ~Stored(id) THEN "NotFound"
    ELSE IF Status(id) \in {"expired", "cancelled"} THEN "AlreadyTerminal"
    ELSE IF AuthorOf(id) = u THEN "SelfClaim"
    ELSE IF Overdue(id) THEN "Expired"
    ELSE IF u \in Range(Claimants(id)) THEN "DuplicateClaim"
    ELSE IF RowOf(id).filled_slots >= Capacity THEN "Full"
    ELSE "Accepted"

\* C24: a claim that has read the request under the lock goes on with the
\* outcome of the first failing check in the order NotFound,
\* AlreadyTerminal, SelfClaim, Expired, DuplicateClaim, Full.
C24_CheckOrder ==
    [][\A u \in Users :
          (claim[u].pc = "locked" /\ claim'[u].pc # "locked") =>
              LET expected == FirstFailing(claim[u].rid, u) IN
              IF claim'[u].pc = "write" THEN claim'[u].outcome = expected
              ELSE outcome'.result = expected]_vars


\* the capacity a stored record shows: its max_slots, the default without it
ShownCapacity(record) ==
    IF record.max_slots = 0 THEN MAX_REQUEST_SLOTS_DEFAULT ELSE record.max_slots

C26_ReadYourWrites ==
    \A i \in 1..Len(rows) :
        LET record == FindRequest(rows, rows[i].id) IN
        /\ record.found
        /\ record.picked_ids = RowOf(rows[i].id).picked_ids
        /\ record.invited_ids = RowOf(rows[i].id).invited_ids
        /\ record.filled_slots = RowOf(rows[i].id).filled_slots
        /\ record.status = RowOf(rows[i].id).status
        /\ record.channel_message_id = RowOf(rows[i].id).channel_message_id
        /\ record.max_slots = Capacity
        /\ record.end_dt_iso = RowOf(rows[i].id).time_to


\* C27: every request whose stored status becomes expired has, from some
\* moment on, no public posting and no channel_message_id.
C27_ExpiredIsRetracted ==
    \A id \in Ids :
        (Stored(id) /\ Status(id) = "expired")
            ~> (/\ Stored(id)
                /\ id \notin posting
                /\ RowOf(id).channel_message_id = NoMessage)


\* C28: the posting of a request is deleted only when its stored status is
\* expired, and a notice of an expiry or of a claim is sent only after the
\* store write it tells of.
C28_StoreBeforeSideEffects ==
    [][/\ \A id \in Ids :
              retracts'[id] > retracts[id] => (Stored(id) /\ Status(id) = "expired")
       /\ \A id \in Ids :
              expiryNotices'[id] > expiryNotices[id]
                  => (Stored(id) /\ Status(id) = "expired")
       /\ \A u \in Users :
              (claim[u].pc = "finish" /\ notices' > notices /\ claim'[u].pc = "idle")
                  => u \in Range(Claimants(claim[u].rid))]_vars

\* C29: a step that deletes the posting or sends a notice is taken by a
\* task that holds no request lock.
C29_SideEffectsOutsideLock ==
    [][/\ (retracts' # retracts \/ expiryNotices' # expiryNotices)
              => \A h \in held : h[2] # Sweeper
       /\ \A u \in Users :
              (claim[u].pc = "finish" /\ notices' > notices /\ claim'[u].pc = "idle")
                  => \A h \in held : h[2] # u]_vars

\* C30: the sweeper writes status expired only when the record read again
\* under the lock is neither expired nor cancelled and its end, if it has
\* one, lies more than the grace period back, whatever the listed record
\* said.
C30_SweepDecidesOnFreshRead ==
    (recheck.pc = "done" /\ recheck.writes) =>
        /\ recheck.latest.found
        /\ recheck.latest.status \notin {"expired", "cancelled"}
        /\ recheck.latest.end_dt_iso # NoEnd
               => recheck.now_local > recheck.latest.end_dt_iso + GraceMinutes

\* the listed record qualified, the record read again is expired or not yet
\* over, and the sweeper has decided
C30_Witness ==
    /\ recheck.pc = "done"
    /\ ~SkipListed(recheck.listed, recheck.now_local)
    /\ recheck.latest.found
    /\ \/ recheck.latest.status = "expired"
       \/ /\ recheck.latest.end_dt_iso # NoEnd
          /\ recheck.now_local <= recheck.latest.end_dt_iso + GraceMinutes
    /\ ~recheck.writes

\* C31: the cancellation of the sweeper while it processes a request leaves
\* that request neither with its posting retracted and a stored status other
\* than expired, nor with its lock held by the sweeper.
C31_CancelBetweenIterations ==
    [][(/\ sweep.pc \in {"wait", "locked", "retract", "write", "notify"}
        /\ sweep'.pc = "cancelled")
       => /\ \A h \in held' : h[2] # Sweeper
          /\ LET i == FindRow(rows', SweepRid) IN
               (i # 0 /\ retracts'[SweepRid] > 0) => rows'[i].status = "expired"]_vars

\* C32: the registry holds one lock per request id for the whole run: every
\* task that asks for the lock of an id gets the registered lock of that id,
\* different ids have different locks, and an entry, once made, is never
\* replaced or removed.
C32_OneLockPerId ==
    [][/\ \A id \in Ids :
              REQUEST_LOCKS[id] # 0 => REQUEST_LOCKS'[id] = REQUEST_LOCKS[id]
       /\ \A id1, id2 \in Ids :
              (id1 # id2 /\ REQUEST_LOCKS'[id1] # 0)
                  => REQUEST_LOCKS'[id1] # REQUEST_LOCKS'[id2]
       /\ \A u \in Users :
              claim'[u].pc # "idle" => claim'[u].lock = REQUEST_LOCKS'[claim'[u].rid]
       /\ sweep'.pc \in {"wait", "locked", "retract", "write", "notify"}
              => sweep'.lock = REQUEST_LOCKS'[sweep'.records[sweep'.i].id]]_vars

\* both requests have their lock, and the sweeper waits for the lock that a
\* claim on the same request has got from the registry before it
C32_Witness ==
    /\ \A id \in 1..2 : REQUEST_LOCKS[id] # 0
    /\ REQUEST_LOCKS[1] # REQUEST_LOCKS[2]
    /\ sweep.pc = "wait"
    /\ \E u \in Users : claim[u].pc # "idle" /\ claim[u].lock = sweep.lock

\* C33: a lookup rebuilds the caches if and only if nothing has been loaded
\* yet or the last load lies more than 15 minutes back; at an age of exactly
\* 15 minutes it reads the caches as they are.
C33_RebuildIffStale ==
    lookup.pc = "done" =>
        (lookup.rebuilt <=>
            (lookup.updated_at = NoLoad \/ lookup.now - lookup.updated_at > 15 * 60))

\* a lookup at an age of exactly the TTL has read the caches without a rebuild
C33_Witness ==
    /\ lookup.pc = "done"
    /\ lookup.updated_at # NoLoad
    /\ lookup.now - lookup.updated_at = 15 * 60
    /\ ~lookup.rebuilt

\* max_slots of the record is missing, empty, zero, negative or no number
NoCapacityGiven(value) == ~Truthy(value) \/ ~int(value).ok \/ int(value).value <= 0

\* C34: whatever max_slots and filled_slots of a stored record are, the
\* capacity the engine uses is between 1 and 5, and 5 when the record gives
\* none, and the filled count it uses is between 0 and the capacity.
C34_SlotsClamped ==
    slotted.pc = "done" =>
        /\ 1 <= slotted.capacity
        /\ slotted.capacity <= 5
        /\ NoCapacityGiven(slotted.max_slots) => slotted.capacity = 5
        /\ 0 <= slotted.filled
        /\ slotted.filled <= slotted.capacity

\* a record with a capacity that is no number and with more filled slots than
\* the default has been measured
C34_Witness ==
    /\ slotted.pc = "done"
    /\ slotted.max_slots.type = "str"
    /\ ~int(slotted.max_slots).ok
    /\ slotted.filled_slots.type = "int"
    /\ slotted.filled_slots.int > 5
    /\ slotted.filled = 5

Persisted(u) ==
    /\ claim[u].pc = "finish"
    /\ Stored(claim[u].rid)
    /\ u \in Range(Claimants(claim[u].rid))

\* C36: a claim that has persisted its claimant ends with the answer
\* accepted and with its two notices attempted; a claim that reports a
\* failure has not persisted its claimant.
C36_ErrorAtomicity ==
    [][\A u \in Users :
          (Persisted(u) /\ claim'[u].pc = "idle")
              => /\ outcome' = [user |-> u, rid |-> claim[u].rid, result |-> "Accepted"]
                 /\ accepted'[claim[u].rid][u] = accepted[claim[u].rid][u] + 1]_vars

\* a lock is held only by a task inside its section of that lock, and no
\* task holds two locks: a task that waits, sleeps or is idle holds none
LockDiscipline ==
    /\ \A h \in held :
          /\ h[2] \in Users
                => (claim[h[2]].pc \in {"locked", "write", "finish"}
                    /\ claim[h[2]].lock = h[1])
          /\ h[2] = Sweeper
                => (sweep.pc \in {"locked", "retract", "write", "notify"}
                    /\ sweep.lock = h[1])
    /\ \A h1, h2 \in held : h1[2] = h2[2] => h1 = h2

C38_SaveKeepsClaimState ==
    [][(submit.pc = "save" /\ submit'.pc = "idle")
       => LET i == FindRow(rows, submit.rid) IN
            i # 0 => /\ rows'[i].status = rows[i].status
                     /\ rows'[i].picked_ids = rows[i].picked_ids
                     /\ rows'[i].invited_ids = rows[i].invited_ids
                     /\ rows'[i].filled_slots = rows[i].filled_slots]_vars

\* the Shops sheet only loses stations and active shops as it is edited
\* (CatalogEdit), so of two different fetches the one that every edit leads
\* away from was fetched earlier
FetchedEarlier(older, newer) ==
    /\ older # newer
    /\ DOMAIN older = DOMAIN newer
    /\ \A id \in DOMAIN newer :
          /\ newer[id].metros \subseteq older[id].metros
          /\ newer[id].is_active => older[id].is_active

\* C40: the active indices are never replaced by indices built from rows of
\* the Shops sheet that were fetched earlier than the rows the replaced
\* indices were built from.
C40_FreshnessMonotonic ==
    [][cache.SHOPS_CACHE_UPDATED_AT # "none"
       => ~FetchedEarlier(cache'.SHOPS_CACHE, cache.SHOPS_CACHE)]_vars

\* C39: in the indices a rebuild installs, every station of the station index
\* has at least one shop and a shop_count equal to the number of shops listed
\* for it, every shop listed under a station is in the shop index and active,
\* every station is in the station list of exactly one area, and the
\* shop_count of every area is the number of distinct shops over its stations.
C39_SnapshotConsistent ==
    built.pc = "installed" =>
        LET ix == built.indices
            listed(a) == {s.name : s \in ix.AREA_SUMMARY_CACHE[a].stations}
        IN /\ DOMAIN ix.STATION_SUMMARY_BY_NAME = DOMAIN ix.METRO_CACHE
           /\ \A st \in DOMAIN ix.STATION_SUMMARY_BY_NAME :
                 /\ ix.METRO_CACHE[st] # {}
                 /\ ix.STATION_SUMMARY_BY_NAME[st].shop_count
                        = Cardinality({loc.shop_id : loc \in ix.METRO_CACHE[st]})
                 /\ Cardinality(ix.METRO_CACHE[st])
                        = Cardinality({loc.shop_id : loc \in ix.METRO_CACHE[st]})
                 /\ \A loc \in ix.METRO_CACHE[st] :
                       /\ loc.shop_id \in DOMAIN ix.SHOPS_CACHE
                       /\ ix.SHOPS_CACHE[loc.shop_id].is_active
                 /\ Cardinality({a \in DOMAIN ix.AREA_SUMMARY_CACHE : st \in listed(a)}) = 1
           /\ \A a \in DOMAIN ix.AREA_SUMMARY_CACHE :
                 /\ listed(a) \subseteq DOMAIN ix.STATION_SUMMARY_BY_NAME
                 /\ \A s \in ix.AREA_SUMMARY_CACHE[a].stations :
                       s = ix.STATION_SUMMARY_BY_NAME[s.name]
                 /\ ix.AREA_SUMMARY_CACHE[a].shop_count
                      = Cardinality(UNION {{loc.shop_id : loc \in ix.METRO_CACHE[st]} :
                                              st \in listed(a)})

\* a station with an active and an inactive shop near it, the inactive one
\* left out of its locations and of its shop_count
C39_Witness ==
    /\ built.pc = "installed"
    /\ Len(built.values) = 2
    /\ NamedRows(built.values) = {1, 2}
    /\ ShopIdOf(built.values, 1) # ShopIdOf(built.values, 2)
    /\ built.values[1].is_active
    /\ ~built.values[2].is_active
    /\ "A" \in Range(built.values[1].metros)
    /\ "A" \in Range(built.values[2].metros)
    /\ "A" \in DOMAIN built.indices.METRO_CACHE
    /\ built.indices.STATION_SUMMARY_BY_NAME["A"].shop_count = 1
    /\ DOMAIN built.indices.SHOPS_CACHE = {1, 2}

====
